---- MODULE Spec2Model ----
(***************************************************************************)
(* Inventory crawler and catalog update engine of the metadata manager.    *)
(*                                                                         *)
(* The model follows InventoryProcessor.process (discover, extract,        *)
(* retire, write) step by step, together with the editor's status-update   *)
(* path DatabaseManager.update_inventory_metadata_status, which writes to  *)
(* the same catalog table from another thread.                             *)
(*                                                                         *)
(* SQL NULL is the string "NULL" in text columns and 0 in the timestamp    *)
(* columns (both clocks start at 1).                                       *)
(***************************************************************************)
EXTENDS Integers, Sequences, FiniteSets, TLC

\* ------------------------------------------------------------------ bounds
\* Number of scan sessions a behaviour may start (the clock ticks per scan).
MaxScans == 3
\* Number of writes to the catalog's management fields a behaviour may
\* perform through the manager.
MaxEdits == 1
\* Largest field_count / band_count of a record handed to the quality score.
MaxCount == 2
\* Largest number of rows of a catalog table the manager is handed.
MaxRows == 2
\* Largest coordinate of a layer's native extent.
MaxCoord == 2

\* ---------------------------------------------------------------- universe
Range(s) == {s[n] : n \in 1..Len(s)}

\* Files under the scanned root, in the order rglob yields them.
PathOrder == <<"a", "b">>
Paths == Range(PathOrder)

\* Path(...).stem of a file: the layer name given to a raster source.
Stem(p) == p

\* Layer names an OGR data source of file p may hold, in layer-index order.
\* "a" is a container (a layer named after the file and a second layer
\* "x"); "b" is a file OGR does not open.
LayerOrder(p) == IF p = "a" THEN <<Stem(p), "x">> ELSE << >>

\* Whether gdal.Open may open the file: "b" is a raster, "a" is not.
GdalCapable(p) == p = "b"

\* layer.GetGeomType() != ogr.wkbNone: in this universe the layer named
\* after the file has geometry and the layer "x" is a geometry-less table.
IsSpatial(p, l) == l = Stem(p)

\* What the file system may hold at path p: nothing, a file no library
\* opens, a raster, or a container whose layers OGR lists.
FileStates(p) ==
    { [exists |-> FALSE, ogr_layers |-> {}, gdal_opens |-> FALSE],
      [exists |-> TRUE,  ogr_layers |-> {}, gdal_opens |-> FALSE] }
    \cup
    { [exists |-> TRUE,  ogr_layers |-> {}, gdal_opens |-> TRUE] :
        g \in {q \in {TRUE} : GdalCapable(p)} }
    \cup
    { [exists |-> TRUE, ogr_layers |-> ls, gdal_opens |-> FALSE] :
        ls \in (SUBSET Range(LayerOrder(p))) \ {{}} }

\* Every identity (file_path, layer_name) a scan of this universe can yield.
Identities ==
    UNION { {<<p, l>> : l \in Range(LayerOrder(p))}
            \cup {<<p, Stem(p)>> : g \in {q \in {TRUE} : GdalCapable(p)}}
          : p \in Paths }

\* Values the editor passes to the status-update path (the wizard passes
\* target 'cache' and cached True).
EditStatuses == {"complete"}
EditTargets == {"cache"}
EditCached == {TRUE}

\* The include_vectors / include_rasters / include_tables settings a scan
\* may be started with.
IncludeChoices ==
    { [include_vectors |-> TRUE,  include_rasters |-> TRUE,
       include_tables  |-> TRUE],
      [include_vectors |-> TRUE,  include_rasters |-> FALSE,
       include_tables  |-> FALSE] }

VARIABLES
    dbExists,            \* the output GeoPackage file exists
    tableExists,         \* it holds the catalog table
    rows,                \* the rows of the catalog table, in table order
    clock,               \* datetime.now(), one tick per scan session
    edits,               \* number of editor updates so far
    pc,                  \* position of process()
    params,              \* self.params
    stopped,             \* InventoryFeedback._stopped
    existing_inventory,  \* process(): existing_inventory
    walk,                \* _discover_geospatial_files: index into rglob
    data_sources,        \* process(): data_sources
    i,                   \* process(): loop index (1-based)
    features,            \* process(): features
    current_file_paths,  \* process(): current_file_paths
    stats,               \* self.stats
    pre,                 \* history: the table rows when the session began
    baseline,            \* history: the catalog as it would be without the
                         \* session (its start state plus the editor's writes)
    written,             \* history: the rows the write step put in the table
    progress,            \* the last percentage passed to feedback.setProgress
    site,                \* a directory no one modifies and the dialog's
                         \* settings, when the sessions run in such a setting
    prev,                \* history: how the previous session ended
    rpc,                 \* position of InventoryRunner.run
    events,              \* the signals the runner has emitted, in order
    feature_data,        \* _calculate_quality_score: its argument
    quality_score,       \* _calculate_quality_score: its result, once returned
    is_connected,        \* DatabaseManager.is_connected
    columns,             \* the columns of the geospatial_inventory table
    mm_tables,           \* the Metadata Manager tables exist
    metadata_cache,      \* the rows of metadata_cache, by layer_path (UNIQUE)
    plugin_info,         \* plugin_info: the value of metadata_schema_version
    upgrade_history,     \* the rows of upgrade_history, in id order
    ret,                 \* the manager's last call and what it returned
    before,              \* history: the database when that call was made
    extent_case,         \* the layer whose extent is being extracted
    footprint,           \* what the extraction made of the extent
    run_btn,             \* InventoryWidget.run_btn is enabled
    stop_btn,            \* InventoryWidget.stop_btn is enabled
    threads              \* the worker threads run_inventory started, in order

managerVars == <<is_connected, columns, mm_tables, metadata_cache,
                 plugin_info, upgrade_history, ret, before>>

extentVars == <<extent_case, footprint>>

widgetVars == <<run_btn, stop_btn, threads>>

\* The manager's connection, the extent extraction and the dialog.
apart == <<managerVars, extentVars, widgetVars>>

vars == <<dbExists, tableExists, rows, clock, edits, pc, params, stopped,
          existing_inventory, walk, data_sources, i, features,
          current_file_paths, stats, pre, baseline, written, progress,
          site, prev, rpc, events, feature_data, quality_score, apart>>

\* What neither process() nor the editor touches.
elsewhere == <<site, rpc, events, feature_data, quality_score, apart>>

scanVars == <<params, stopped, existing_inventory, walk, data_sources, i,
              features, current_file_paths, stats>>

\* ----------------------------------------------------------------- helpers
Key(r) == <<r.file_path, r.layer_name>>

IsActive(r) == r.retired_datetime = 0

ActiveKeys(rs) == {Key(r) : r \in {q \in Range(rs) : IsActive(q)}}

InitStats == [total |-> 0, vectors |-> 0, rasters |-> 0, tables |-> 0,
              errors |-> 0]

Catalog == [db |-> dbExists, table |-> tableExists, rows |-> rows]

\* The session observed a cancellation request: a loop was left by `break`.
CancelObserved ==
    stopped /\ (walk <= Len(PathOrder) \/ i <= Len(data_sources))

\* ------------------------------------------------- _load_existing_inventory
\* SELECT ... WHERE retired_datetime IS NULL, folded into a dict keyed by
\* (file_path, layer_name): a later row with the same key replaces an
\* earlier one.  Any sqlite error (no table) leaves the dict empty.
\* Variant: the SELECT without its `WHERE retired_datetime IS NULL`.
LoadExistingInventory_IncludesRetired(tbl, rs) ==
    [k \in (IF tbl THEN {Key(r) : r \in Range(rs)} ELSE {}) |->
        LET last == CHOOSE n \in 1..Len(rs) :
                        /\ Key(rs[n]) = k
                        /\ \A m \in 1..Len(rs) : Key(rs[m]) = k => m <= n
        IN [metadata_status       |-> rs[last].metadata_status,
            metadata_cached       |-> rs[last].metadata_cached,
            metadata_last_updated |-> rs[last].metadata_last_updated,
            metadata_target       |-> rs[last].metadata_target]]

\* Variant: the query always fails and `except: pass` hides it.
LoadExistingInventory_Swallowed(tbl, rs) == [k \in {} |-> 0]

LoadExistingInventory(tbl, rs) ==
    [k \in (IF tbl THEN ActiveKeys(rs) ELSE {}) |->
            LET last == CHOOSE n \in 1..Len(rs) :
                            /\ Key(rs[n]) = k /\ IsActive(rs[n])
                            /\ \A m \in 1..Len(rs) :
                                  (Key(rs[m]) = k /\ IsActive(rs[m])) => m <= n
            IN [metadata_status       |-> rs[last].metadata_status,
                metadata_cached       |-> rs[last].metadata_cached,
                metadata_last_updated |-> rs[last].metadata_last_updated,
                metadata_target       |-> rs[last].metadata_target]]

\* ------------------------------------------------ _discover_geospatial_files
\* The data sources one file contributes (one iteration of the rglob loop).
\* Variant: the raster source is appended whatever gdal.Open returned.
ProbeFile_NoOpenCheck(p, f, prm) ==
    IF ~f.exists THEN << >>
    ELSE IF (prm.include_vectors \/ prm.include_tables) /\ f.ogr_layers # {}
    THEN LET wanted(l) == /\ l \in f.ogr_layers
                          /\ \/ IsSpatial(p, l) /\ prm.include_vectors
                             \/ ~IsSpatial(p, l) /\ prm.include_tables
             src(l) == [path |-> p,
                        type |-> IF IsSpatial(p, l) THEN "vector" ELSE "table",
                        layer_name |-> l]
             all == [n \in 1..Len(LayerOrder(p)) |-> src(LayerOrder(p)[n])]
         IN SelectSeq(all, LAMBDA d : wanted(d.layer_name))
    ELSE IF prm.include_rasters
    THEN << [path |-> p, type |-> "raster", layer_name |-> Stem(p)] >>
    ELSE << >>

ProbeFile(p, f, prm) ==
    IF ~f.exists THEN << >>
    ELSE IF (prm.include_vectors \/ prm.include_tables) /\ f.ogr_layers # {}
    THEN \* ogr.Open succeeded: one source per wanted layer, then `continue`
         LET wanted(l) == /\ l \in f.ogr_layers
                          /\ \/ IsSpatial(p, l) /\ prm.include_vectors
                             \/ ~IsSpatial(p, l) /\ prm.include_tables
             src(l) == [path |-> p,
                        type |-> IF IsSpatial(p, l) THEN "vector" ELSE "table",
                        layer_name |-> l]
             all == [n \in 1..Len(LayerOrder(p)) |-> src(LayerOrder(p)[n])]
         IN SelectSeq(all, LAMBDA d : wanted(d.layer_name))
    ELSE IF prm.include_rasters /\ f.gdal_opens
    THEN << [path |-> p, type |-> "raster", layer_name |-> Stem(p)] >>
    ELSE << >>

\* ------------------------------------------- _apply_preserved_metadata_status
\* Variant: only metadata_status and metadata_cached are copied forward.
ApplyPreservedMetadataStatus_StatusOnly(fd, existing) ==
    LET key == <<fd.file_path, fd.layer_name>> IN
    IF key \in DOMAIN existing
    THEN [fd EXCEPT !.metadata_status = existing[key].metadata_status,
                    !.metadata_cached = existing[key].metadata_cached]
    ELSE [fd EXCEPT !.metadata_status = "none",
                    !.metadata_cached = FALSE]

\* Variant: the lookup matches on file_path alone.
ApplyPreservedMetadataStatus_ByFilePath(fd, existing) ==
    LET same == {k \in DOMAIN existing : k[1] = fd.file_path} IN
    IF same # {}
    THEN LET key == CHOOSE k \in same : TRUE IN
         [fd EXCEPT !.metadata_status       = existing[key].metadata_status,
                    !.metadata_cached       = existing[key].metadata_cached,
                    !.metadata_last_updated = existing[key].metadata_last_updated,
                    !.metadata_target       = existing[key].metadata_target]
    ELSE [fd EXCEPT !.metadata_status = "none",
                    !.metadata_cached = FALSE]

ApplyPreservedMetadataStatus(fd, existing) ==
    LET key == <<fd.file_path, fd.layer_name>> IN
    IF key \in DOMAIN existing
    THEN [fd EXCEPT !.metadata_status       = existing[key].metadata_status,
                    !.metadata_cached       = existing[key].metadata_cached,
                    !.metadata_last_updated = existing[key].metadata_last_updated,
                    !.metadata_target       = existing[key].metadata_target]
    ELSE [fd EXCEPT !.metadata_status = "none",
                    !.metadata_cached = FALSE]

\* ----------------------------------------------------------- _extract_metadata
\* The record built for one data source.  Fields the code leaves unset are
\* NULL in the written row.  sub_ok tells whether the type-specific sub-step
\* (_extract_vector_metadata / _extract_raster_metadata) ran through; when
\* it raises, the exception is caught there and its text becomes `issues`.
\* Variant: the `else` branch is missing, so a fresh scan never initialises
\* the management fields.
ExtractMetadata_NoFreshInit(ds, prm, existing, now, sub_ok) ==
    LET fd == [file_path             |-> ds.path,
               layer_name            |-> ds.layer_name,
               data_type             |-> ds.type,
               scan_timestamp        |-> now,
               issues                |-> IF sub_ok THEN "NULL" ELSE "err",
               metadata_status       |-> "NULL",
               metadata_cached       |-> FALSE,
               metadata_last_updated |-> 0,
               metadata_target       |-> "NULL",
               retired_datetime      |-> 0]
    IN IF prm.update_mode
       THEN ApplyPreservedMetadataStatus(fd, existing)
       ELSE fd

ExtractMetadata(ds, prm, existing, now, sub_ok) ==
    LET fd == [file_path             |-> ds.path,
               layer_name            |-> ds.layer_name,
               data_type             |-> ds.type,
               scan_timestamp        |-> now,
               issues                |-> IF sub_ok THEN "NULL" ELSE "err",
               metadata_status       |-> "NULL",
               metadata_cached       |-> FALSE,
               metadata_last_updated |-> 0,
               metadata_target       |-> "NULL",
               retired_datetime      |-> 0]
    IN IF prm.update_mode
       THEN ApplyPreservedMetadataStatus(fd, existing)
       ELSE [fd EXCEPT !.metadata_status = "none", !.metadata_cached = FALSE]

\* ---------------------------------------------------------- _retire_old_records
\* UPDATE ... SET retired_datetime = now WHERE file_path = ? AND
\* layer_name = ? AND retired_datetime IS NULL, for every loaded key whose
\* file_path is not among the paths of the extracted records.
RetireOldRecords(rs, existing, current, now) ==
    [n \in 1..Len(rs) |->
        IF /\ Key(rs[n]) \in DOMAIN existing
           /\ rs[n].file_path \notin current
           /\ IsActive(rs[n])
        THEN [rs[n] EXCEPT !.retired_datetime = now]
        ELSE rs[n]]

\* ------------------------------------------------------------ _write_geopackage
\* The table after a successful write: the old layer is removed and the file
\* is created anew (CreateOrOverwriteFile) with one row per feature.
\* Variant: the new rows are appended to the layer instead of replacing it.
WriteGeopackage_Append(old, feats) == old \o feats

WriteGeopackage(old, feats) == feats

\* -------------------------------------------- update_inventory_metadata_status
\* UPDATE geospatial_inventory SET metadata_status, metadata_last_updated,
\* metadata_target, metadata_cached WHERE file_path = ? AND layer_name = ?
\* `now` is SQLite's datetime('now'), a time source of its own: the ordinal
\* of the editor's update.
\* Variant: WHERE file_path = ? alone.
UpdateStatusRows_ByFilePath(rs, path, layer, status, target, cached, now) ==
    [n \in 1..Len(rs) |->
        IF rs[n].file_path = path
        THEN [rs[n] EXCEPT !.metadata_status       = status,
                           !.metadata_last_updated = now,
                           !.metadata_target       = target,
                           !.metadata_cached       = cached]
        ELSE rs[n]]

UpdateStatusRows(rs, path, layer, status, target, cached, now) ==
    [n \in 1..Len(rs) |->
        IF rs[n].file_path = path /\ rs[n].layer_name = layer
        THEN [rs[n] EXCEPT !.metadata_status       = status,
                           !.metadata_last_updated = now,
                           !.metadata_target       = target,
                           !.metadata_cached       = cached]
        ELSE rs[n]]

\* ------------------------------------------------------------------ initial
NoInventory == [k \in {} |-> 0]

NoParams == [update_mode |-> FALSE, include_vectors |-> FALSE,
             include_rasters |-> FALSE, include_tables |-> FALSE]

NoCatalog == [db |-> FALSE, table |-> FALSE, rows |-> << >>]

\* No setting is pinned: the directory may change at any time and the
\* settings are chosen anew for every scan.
NoSite == [dir |-> << >>, settings |-> NoParams]

\* No session has ended yet.
NoSession == [kind |-> "none", ended |-> "none", whole |-> FALSE,
              params |-> NoParams, rows |-> << >>]

\* No record has been handed to _calculate_quality_score.
NoFeatureData == [data_type |-> "none"]

\* No manager call has been made.
NoReturn ==
    [op |-> "none", args |-> << >>, ok |-> FALSE, value |-> "NULL",
     again |-> FALSE]

NoCache == [p \in {} |-> 0]

\* The tables the manager reads and writes.
Database ==
    [table |-> tableExists, columns |-> columns, rows |-> rows,
     mm_tables |-> mm_tables, metadata_cache |-> metadata_cache,
     plugin_info |-> plugin_info, upgrade_history |-> upgrade_history]

NoDatabase ==
    [table |-> FALSE, columns |-> {}, rows |-> << >>, mm_tables |-> FALSE,
     metadata_cache |-> NoCache, plugin_info |-> "NULL",
     upgrade_history |-> << >>]

\* No extent has been handed to the extraction.
NoExtent == [kind |-> "none"]

NoFootprint == [made |-> FALSE]

\* The manager is not connected and its tables do not exist.
ManagerIdle ==
    /\ is_connected = FALSE
    /\ columns = {}
    /\ mm_tables = FALSE
    /\ metadata_cache = NoCache
    /\ plugin_info = "NULL"
    /\ upgrade_history = << >>
    /\ ret = NoReturn
    /\ before = NoDatabase

ExtentIdle ==
    /\ extent_case = NoExtent
    /\ footprint = NoFootprint

\* setup_ui: the run button is enabled, the stop button is not.
WidgetIdle ==
    /\ run_btn = TRUE
    /\ stop_btn = FALSE
    /\ threads = << >>

\* No output file yet, no session running.
Init ==
    /\ ManagerIdle
    /\ ExtentIdle
    /\ WidgetIdle
    /\ dbExists = FALSE
    /\ tableExists = FALSE
    /\ rows = << >>
    /\ clock = 0
    /\ edits = 0
    /\ pc = "idle"
    /\ params = NoParams
    /\ stopped = FALSE
    /\ existing_inventory = NoInventory
    /\ walk = 1
    /\ data_sources = << >>
    /\ i = 1
    /\ features = << >>
    /\ current_file_paths = {}
    /\ stats = InitStats
    /\ pre = << >>
    /\ baseline = NoCatalog
    /\ written = << >>
    /\ progress = 0
    /\ site = NoSite
    /\ prev = NoSession
    /\ rpc = "idle"
    /\ events = << >>
    /\ feature_data = NoFeatureData
    /\ quality_score = << >>

\* Positions of InventoryRunner.run at which self.feedback exists, so that
\* stop() reaches it (`if self.feedback: self.feedback.cancel()`).
HasFeedback == {"params", "discover", "extract", "write", "report"}

\* ------------------------------------------------------------------ process
\* InventoryProcessor(params, feedback).process() up to the discovery: in
\* update mode, when the output file exists, the prior catalog is loaded.
StartScanAs(um, inc) ==
    /\ pc = "idle"
    /\ rpc = "idle"
    /\ clock < MaxScans
    /\ params' = [update_mode |-> um,
                  include_vectors |-> inc.include_vectors,
                  include_rasters |-> inc.include_rasters,
                  include_tables |-> inc.include_tables]
    /\ existing_inventory' =
          IF um /\ dbExists THEN LoadExistingInventory(tableExists, rows)
          ELSE NoInventory
    /\ clock' = clock + 1
    /\ pc' = "discover"
    /\ stopped' = FALSE
    /\ walk' = 1
    /\ data_sources' = << >>
    /\ i' = 1
    /\ features' = << >>
    /\ current_file_paths' = {}
    /\ stats' = InitStats
    /\ pre' = rows
    /\ baseline' = Catalog
    /\ written' = << >>
    /\ progress' = 10
    /\ UNCHANGED <<dbExists, tableExists, rows, edits, prev, elsewhere>>

\* The scan is started with any settings.
StartScan ==
    \E um \in BOOLEAN : \E inc \in IncludeChoices : StartScanAs(um, inc)

\* InventoryRunner.stop -> InventoryFeedback.cancel, from the caller's thread.
Cancel ==
    /\ \/ pc \in {"discover", "extract", "retire", "write"}
       \/ rpc \in HasFeedback
    /\ ~stopped
    /\ stopped' = TRUE
    /\ UNCHANGED <<dbExists, tableExists, rows, clock, edits, pc, params,
                   existing_inventory, walk, data_sources, i, features,
                   current_file_paths, stats, pre, baseline, written,
                   progress, prev, elsewhere>>

\* One iteration of the rglob loop of _discover_geospatial_files; what the
\* directory holds at the path is read when the loop reaches it.
DiscoverFileAs(f) ==
    /\ pc = "discover"
    /\ walk <= Len(PathOrder)
    /\ ~stopped
    /\ data_sources' = data_sources \o ProbeFile(PathOrder[walk], f, params)
    /\ walk' = walk + 1
    /\ UNCHANGED <<dbExists, tableExists, rows, clock, edits, pc, params,
                   stopped, existing_inventory, i, features,
                   current_file_paths, stats, pre, baseline, written,
                   progress, prev, elsewhere>>

\* The directory is modified freely: the path may hold anything when read.
DiscoverFile ==
    /\ walk <= Len(PathOrder)
    /\ \E f \in FileStates(PathOrder[walk]) : DiscoverFileAs(f)

\* The loop ends (exhausted, or canceled: break); process() returns at once
\* when no data source was found.
DiscoverEnd ==
    /\ pc = "discover"
    /\ walk > Len(PathOrder) \/ stopped
    /\ pc' = IF data_sources = << >> THEN "returned" ELSE "extract"
    /\ progress' = IF data_sources = << >> THEN progress ELSE 30
    /\ UNCHANGED <<dbExists, tableExists, rows, clock, edits, scanVars,
                   pre, baseline, written, prev, elsewhere>>

\* What extracting one data source may come to: the record is built
\* ("ok"), the type-specific sub-step fails and the record is built without
\* it ("partial"), or _extract_metadata raises ("raises").
Outcomes == {"ok", "partial", "raises"}

\* progress = 30 + int((i / len(data_sources)) * 50), i counted from 0.
ItemProgress_Countdown(k, n) == 80 - (k * 50) \div n

ItemProgress(k, n) == 30 + (k * 50) \div n

\* `except Exception as e:` of the loop body: the error is logged and counted.
OnItemException_Uncounted(st) == st

OnItemException(st) == [st EXCEPT !.errors = @ + 1]

\* One iteration of the extraction loop: the item's record is appended and
\* counted, or _extract_metadata raises and the error is counted.
ExtractItemAs(out) ==
    /\ pc = "extract"
    /\ i <= Len(data_sources)
    /\ ~stopped
    /\ progress' = ItemProgress(i - 1, Len(data_sources))
    /\ IF out # "raises"
       THEN LET feature == ExtractMetadata(data_sources[i], params,
                                           existing_inventory, clock,
                                           out = "ok")
            IN /\ features' = Append(features, feature)
               /\ current_file_paths' =
                     current_file_paths \cup {feature.file_path}
               /\ stats' =
                     [stats EXCEPT
                        !.total = @ + 1,
                        !.vectors = IF feature.data_type = "vector"
                                    THEN @ + 1 ELSE @,
                        !.rasters = IF feature.data_type = "raster"
                                    THEN @ + 1 ELSE @,
                        !.tables = IF feature.data_type = "table"
                                   THEN @ + 1 ELSE @]
       ELSE /\ stats' = OnItemException(stats)
            /\ UNCHANGED <<features, current_file_paths>>
    /\ i' = i + 1
    /\ UNCHANGED <<dbExists, tableExists, rows, clock, edits, pc, params,
                   stopped, existing_inventory, walk, data_sources, pre,
                   baseline, written, prev, elsewhere>>

\* The files are modified freely: an item may be extracted or raise.  (A
\* failed sub-step differs from "ok" in `issues` only, which no step of the
\* catalog management reads; it is exercised in the pinned setting below.)
ExtractItem == \E out \in Outcomes \ {"partial"} : ExtractItemAs(out)

\* The extraction loop ends: exhausted, or `if self.is_canceled(): break`.
ExtractEnd ==
    /\ pc = "extract"
    /\ i > Len(data_sources) \/ stopped
    /\ pc' = "retire"
    /\ UNCHANGED <<dbExists, tableExists, rows, clock, edits, scanVars,
                   pre, baseline, written, progress, prev, elsewhere>>

\* `if update_mode and existing_inventory:` _retire_old_records, with its
\* own connection and commit; an sqlite error is logged and swallowed.
Retire ==
    /\ pc = "retire"
    /\ IF params.update_mode /\ DOMAIN existing_inventory # {}
       THEN \E ok \in BOOLEAN :
              rows' = IF ok /\ tableExists
                      THEN RetireOldRecords(rows, existing_inventory,
                                            current_file_paths, clock)
                      ELSE rows
       ELSE rows' = rows
    /\ pc' = "write"
    /\ progress' = 90
    /\ UNCHANGED <<dbExists, tableExists, clock, edits, scanVars, pre,
                   baseline, written, prev, elsewhere>>

\* _write_geopackage with no feature: a warning, nothing is written.
WriteNothing ==
    /\ pc = "write"
    /\ features = << >>
    /\ pc' = "returned"
    /\ progress' = 100
    /\ UNCHANGED <<dbExists, tableExists, rows, clock, edits, scanVars,
                   pre, baseline, written, prev, elsewhere>>

\* _write_geopackage: the old layer is removed from an existing file (or
\* the removal fails and is logged), then the writer creates the file.
WriteOk ==
    /\ pc = "write"
    /\ features # << >>
    /\ dbExists' = TRUE
    /\ tableExists' = TRUE
    /\ rows' = WriteGeopackage(rows, features)
    /\ written' = rows'
    /\ pc' = "returned"
    /\ progress' = 100
    /\ UNCHANGED <<clock, edits, scanVars, pre, baseline, prev, elsewhere>>

\* _write_geopackage: the writer reports an error and process() raises,
\* after the old layer was removed (or its removal failed).
WriteFail ==
    /\ pc = "write"
    /\ features # << >>
    /\ \E removed \in BOOLEAN :
          IF dbExists /\ tableExists /\ removed
          THEN tableExists' = FALSE /\ rows' = << >>
          ELSE UNCHANGED <<tableExists, rows>>
    /\ pc' = "raised"
    /\ UNCHANGED <<dbExists, clock, edits, scanVars, pre, baseline,
                   written, progress, prev, elsewhere>>

\* The session is over; the processor and its locals are dropped.
EndSessionAs(p) ==
    /\ pc \in {"returned", "raised"}
    /\ pc' = "idle"
    /\ params' = NoParams
    /\ stopped' = FALSE
    /\ existing_inventory' = NoInventory
    /\ walk' = 1
    /\ data_sources' = << >>
    /\ i' = 1
    /\ features' = << >>
    /\ current_file_paths' = {}
    /\ stats' = InitStats
    /\ pre' = << >>
    /\ baseline' = NoCatalog
    /\ written' = << >>
    /\ progress' = 0
    /\ prev' = p
    /\ UNCHANGED <<dbExists, tableExists, rows, clock, edits, elsewhere>>

\* No record is kept of the sessions that ended.
EndSession == EndSessionAs(prev)

\* ------------------------------------------------------------------- editor
\* DatabaseManager.update_inventory_metadata_status(layer_path, layer_name,
\* status, target, cached): False when not connected, when the UPDATE
\* raises (no table) or when no row matches.
UpdateInventoryMetadataStatus ==
    /\ edits < MaxEdits
    /\ dbExists /\ tableExists
    /\ \E path \in Paths : \E layer \in {id[2] : id \in {q \in Identities : q[1] = path}} :
       \E status \in EditStatuses, target \in EditTargets, cached \in EditCached :
          /\ \E n \in 1..Len(rows) : Key(rows[n]) = <<path, layer>>
          /\ rows' = UpdateStatusRows(rows, path, layer, status, target,
                                      cached, edits + 1)
          /\ baseline' =
                IF pc = "idle" THEN baseline
                ELSE [baseline EXCEPT !.rows =
                        UpdateStatusRows(@, path, layer, status, target,
                                         cached, edits + 1)]
    /\ edits' = edits + 1
    /\ UNCHANGED <<dbExists, tableExists, clock, pc, scanVars, pre,
                   written, progress, prev, elsewhere>>

Next ==
    \/ StartScan
    \/ Cancel
    \/ DiscoverFile
    \/ DiscoverEnd
    \/ ExtractItem
    \/ ExtractEnd
    \/ Retire
    \/ WriteNothing
    \/ WriteOk
    \/ WriteFail
    \/ EndSession
    \/ UpdateInventoryMetadataStatus

Spec == Init /\ [][Next]_vars

\* ============================================================ pinned setting
\* A directory no program modifies and dialog settings left as they are: the
\* runs of one scan repeated.  Every file keeps its content, and with it
\* what extracting it comes to.
Openable(f) == f.exists /\ (f.ogr_layers # {} \/ f.gdal_opens)

Unopenable(f) == f.exists /\ ~Openable(f)

\* What a path holds and what extracting its data sources comes to (a file
\* that yields no data source is never extracted).
SiteFiles(p) ==
    {e \in [file : FileStates(p), extract : Outcomes] :
        Openable(e.file) \/ e.extract = "ok"}

SiteSettings ==
    {[update_mode |-> um,
      include_vectors |-> inc.include_vectors,
      include_rasters |-> inc.include_rasters,
      include_tables |-> inc.include_tables] :
        um \in BOOLEAN, inc \in IncludeChoices}

Sites ==
    {[dir |-> d, settings |-> st] :
        d \in {e \in [Paths -> UNION {SiteFiles(p) : p \in Paths}] :
                  \A p \in Paths : e[p] \in SiteFiles(p)},
        st \in SiteSettings}

InitSite ==
    /\ ManagerIdle
    /\ ExtentIdle
    /\ WidgetIdle
    /\ dbExists = FALSE
    /\ tableExists = FALSE
    /\ rows = << >>
    /\ clock = 0
    /\ edits = 0
    /\ pc = "idle"
    /\ params = NoParams
    /\ stopped = FALSE
    /\ existing_inventory = NoInventory
    /\ walk = 1
    /\ data_sources = << >>
    /\ i = 1
    /\ features = << >>
    /\ current_file_paths = {}
    /\ stats = InitStats
    /\ pre = << >>
    /\ baseline = NoCatalog
    /\ written = << >>
    /\ progress = 0
    /\ site \in Sites
    /\ prev = NoSession
    /\ rpc = "idle"
    /\ events = << >>
    /\ feature_data = NoFeatureData
    /\ quality_score = << >>

\* run_inventory: the scan is started with the dialog's settings.
SiteStartScan == StartScanAs(site.settings.update_mode, site.settings)

SiteDiscoverFile ==
    /\ walk <= Len(PathOrder)
    /\ DiscoverFileAs(site.dir[PathOrder[walk]].file)

SiteExtractItem ==
    /\ i <= Len(data_sources)
    /\ ExtractItemAs(site.dir[data_sources[i].path].extract)

\* How the session ended, for the next one to be compared with.
SiteEndSession ==
    EndSessionAs([kind |-> "scan", ended |-> pc, whole |-> ~CancelObserved,
                  params |-> params, rows |-> rows])

\* The processor's scans repeated in the pinned setting, with the editor at
\* work.
NextRescan ==
    \/ SiteStartScan
    \/ Cancel
    \/ SiteDiscoverFile
    \/ DiscoverEnd
    \/ SiteExtractItem
    \/ ExtractEnd
    \/ Retire
    \/ WriteNothing
    \/ WriteOk
    \/ WriteFail
    \/ SiteEndSession
    \/ UpdateInventoryMetadataStatus

SpecRescan == InitSite /\ [][NextRescan]_vars

\* ------------------------------------------------------------ InventoryRunner
\* The signals of InventoryRunner, as the caller receives them.
Progress(percent) == [signal |-> "progress_updated", arg |-> percent]
Status(text) == [signal |-> "status_updated", arg |-> text]
Log(level) == [signal |-> "log_message", arg |-> level]
Finished == [signal |-> "finished", arg |-> "stats"]
Error(reason) == [signal |-> "error", arg |-> reason]

\* What processAlgorithm returns: {self.OUTPUT_GPKG: output_gpkg}, with
\* OUTPUT_GPKG = "OUTPUT_GPKG".
Results == [OUTPUT_GPKG |-> "output_gpkg"]

\* The variables a runner session leaves alone.
besideRun == <<edits, pc, params, existing_inventory, current_file_paths,
               pre, baseline, written, site, feature_data, quality_score,
               apart>>

\* The thread starts run(); the dialog lets one session run at a time (the
\* run button is disabled until the session reports back).
RunnerStart ==
    /\ rpc = "idle"
    /\ pc = "idle"
    /\ clock < MaxScans
    /\ rpc' = "import"
    /\ clock' = clock + 1
    /\ events' = << >>
    /\ progress' = 0
    /\ stopped' = FALSE
    /\ walk' = 1
    /\ data_sources' = << >>
    /\ i' = 1
    /\ features' = << >>
    /\ stats' = InitStats
    /\ UNCHANGED <<dbExists, tableExists, rows, prev, besideRun>>

\* `from inventory_miner import InventoryMinerAlgorithm`: an ImportError is
\* reported and run() returns.
RunnerImport ==
    /\ rpc = "import"
    /\ \E ok \in BOOLEAN :
          IF ok
          THEN rpc' = "init" /\ events' = events
          ELSE rpc' = "done" /\ events' = Append(events, Error("import"))
    /\ UNCHANGED <<dbExists, tableExists, rows, clock, stopped, walk,
                   data_sources, i, features, stats, progress, prev,
                   besideRun>>

\* The algorithm, the feedback and the context are created, the first
\* status is emitted and processAlgorithm is called.
RunnerInit ==
    /\ rpc = "init"
    /\ stopped' = FALSE
    /\ events' = Append(events, Status("Scanning directory..."))
    /\ rpc' = "params"
    /\ UNCHANGED <<dbExists, tableExists, rows, clock, walk, data_sources,
                   i, features, stats, progress, prev, besideRun>>

\* `except Exception as e:` of run(): initAlgorithm, the parameter
\* accessors, the directory checks or rglob raised.
RunnerException ==
    /\ rpc \in {"init", "params", "discover"}
    /\ events' = events \o << Log("CRITICAL"), Error("exception") >>
    /\ rpc' = "done"
    /\ UNCHANGED <<dbExists, tableExists, rows, clock, stopped, walk,
                   data_sources, i, features, stats, progress, prev,
                   besideRun>>

\* ------------------------------------- InventoryMinerAlgorithm.processAlgorithm
\* The parameters are read and the directory is checked; three messages.
MinerParams ==
    /\ rpc = "params"
    /\ events' = events \o << Log("INFO"), Log("INFO"), Log("INFO") >>
    /\ rpc' = "discover"
    /\ UNCHANGED <<dbExists, tableExists, rows, clock, stopped, walk,
                   data_sources, i, features, stats, progress, prev,
                   besideRun>>

\* The data sources one file contributes to the miner's discovery: as
\* ProbeFile, but a raster source has no layer name.
MinerProbeFile(p, f, prm) ==
    IF ~f.exists THEN << >>
    ELSE IF (prm.include_vectors \/ prm.include_tables) /\ f.ogr_layers # {}
    THEN LET wanted(l) == /\ l \in f.ogr_layers
                          /\ \/ IsSpatial(p, l) /\ prm.include_vectors
                             \/ ~IsSpatial(p, l) /\ prm.include_tables
             src(l) == [path |-> p,
                        type |-> IF IsSpatial(p, l) THEN "vector" ELSE "table",
                        layer_name |-> l]
             all == [n \in 1..Len(LayerOrder(p)) |-> src(LayerOrder(p)[n])]
         IN SelectSeq(all, LAMBDA d : wanted(d.layer_name))
    ELSE IF prm.include_rasters /\ f.gdal_opens
    THEN << [path |-> p, type |-> "raster", layer_name |-> "NULL"] >>
    ELSE << >>

\* One iteration of the rglob loop of the miner's discovery.
MinerDiscoverFile ==
    /\ rpc = "discover"
    /\ walk <= Len(PathOrder)
    /\ ~stopped
    /\ data_sources' =
          data_sources \o MinerProbeFile(PathOrder[walk],
                                         site.dir[PathOrder[walk]].file,
                                         site.settings)
    /\ walk' = walk + 1
    /\ UNCHANGED <<dbExists, tableExists, rows, clock, stopped, i, features,
                   stats, progress, prev, rpc, events, besideRun>>

\* The discovery loop ends.  Without a data source an empty layer is
\* written (pushWarning is not among the calls the feedback forwards).
MinerDiscoverEnd ==
    /\ rpc = "discover"
    /\ walk > Len(PathOrder) \/ stopped
    /\ IF data_sources = << >>
       THEN rpc' = "write" /\ events' = events
       ELSE rpc' = "extract" /\ events' = Append(events, Log("INFO"))
    /\ UNCHANGED <<dbExists, tableExists, rows, clock, stopped, walk,
                   data_sources, i, features, stats, progress, prev,
                   besideRun>>

\* progress = int((i / total) * 100), i counted from 0.
MinerProgress(k, n) == (k * 100) \div n

\* The feature _extract_layer_metadata builds.
MinerFeature(ds, now, sub_ok) ==
    [file_path      |-> ds.path,
     layer_name     |-> ds.layer_name,
     data_type      |-> ds.type,
     scan_timestamp |-> now,
     is_valid       |-> sub_ok,
     issues         |-> IF sub_ok THEN "NULL" ELSE "err"]

\* One iteration of the miner's loop: the progress is reported, then
\* _extract_layer_metadata announces the item and returns its feature, or
\* reports the error and returns None (counted in total_errors).
MinerExtractItem ==
    /\ rpc = "extract"
    /\ i <= Len(data_sources)
    /\ ~stopped
    /\ LET out == site.dir[data_sources[i].path].extract
           percent == MinerProgress(i - 1, Len(data_sources))
       IN /\ progress' = percent
          /\ events' = events \o << Progress(percent), Log("INFO") >>
                          \o (IF out = "ok" THEN << >> ELSE << Log("ERROR") >>)
          /\ IF out # "raises"
             THEN LET feature == MinerFeature(data_sources[i], clock,
                                              out = "ok")
                  IN /\ features' = Append(features, feature)
                     /\ stats' =
                           [stats EXCEPT
                              !.total = @ + 1,
                              !.vectors = IF feature.data_type = "vector"
                                          THEN @ + 1 ELSE @,
                              !.rasters = IF feature.data_type = "raster"
                                          THEN @ + 1 ELSE @,
                              !.tables = IF feature.data_type = "table"
                                         THEN @ + 1 ELSE @]
             ELSE /\ stats' = [stats EXCEPT !.errors = @ + 1]
                  /\ features' = features
    /\ i' = i + 1
    /\ UNCHANGED <<dbExists, tableExists, rows, clock, stopped, walk,
                   data_sources, prev, rpc, besideRun>>

\* The loop ends (exhausted, or canceled: break); "Writing GeoPackage...".
MinerExtractEnd ==
    /\ rpc = "extract"
    /\ i > Len(data_sources) \/ stopped
    /\ events' = Append(events, Log("INFO"))
    /\ rpc' = "write"
    /\ UNCHANGED <<dbExists, tableExists, rows, clock, stopped, walk,
                   data_sources, i, features, stats, progress, prev,
                   besideRun>>

\* The miner's _write_geopackage: the layer is created or overwritten with
\* the miner's own fields, none of which is a management column, so the
\* file no longer holds the catalog table.
MinerWriteOk ==
    /\ rpc = "write"
    /\ dbExists' = TRUE
    /\ tableExists' = FALSE
    /\ rows' = << >>
    /\ events' = events \o << Log("INFO") >>
                    \o (IF data_sources = << >> THEN << >>
                        ELSE << Log("INFO") >>)
    /\ rpc' = "report"
    /\ UNCHANGED <<clock, stopped, walk, data_sources, i, features, stats,
                   progress, prev, besideRun>>

\* The writer fails: QgsProcessingException, caught by run().
MinerWriteFail ==
    /\ rpc = "write"
    /\ \E removed \in BOOLEAN :
          IF dbExists /\ tableExists /\ removed
          THEN tableExists' = FALSE /\ rows' = << >>
          ELSE UNCHANGED <<tableExists, rows>>
    /\ events' = events \o << Log("CRITICAL"), Error("exception") >>
    /\ rpc' = "done"
    /\ UNCHANGED <<dbExists, clock, stopped, walk, data_sources, i,
                   features, stats, progress, prev, besideRun>>

\* ------------------------------------------------ InventoryRunner.run, the end
\* What run() emits once processAlgorithm has returned: the cancellation,
\* the missing output (results.get('OUTPUT')), or the completion.
\* Variant: the `return` after the cancellation report is missing.
ReportEvents_NoReturn(canceled, results) ==
    (IF canceled THEN << Log("WARNING"), Error("canceled") >> ELSE << >>)
    \o (IF "OUTPUT" \notin DOMAIN results
        THEN << Error("no output") >>
        ELSE << Status("Inventory complete"), Finished >>)

ReportEvents(canceled, results) ==
    IF canceled
    THEN << Log("WARNING"), Error("canceled") >>
    ELSE IF "OUTPUT" \notin DOMAIN results
    THEN << Error("no output") >>
    ELSE << Status("Inventory complete"), Finished >>

RunnerReport ==
    /\ rpc = "report"
    /\ events' = events \o ReportEvents(stopped, Results)
    /\ rpc' = "done"
    /\ UNCHANGED <<dbExists, tableExists, rows, clock, stopped, walk,
                   data_sources, i, features, stats, progress, prev,
                   besideRun>>

\* run() has returned; the runner's session is over.
RunnerEnd ==
    /\ rpc = "done"
    /\ rpc' = "idle"
    /\ events' = << >>
    /\ progress' = 0
    /\ stopped' = FALSE
    /\ walk' = 1
    /\ data_sources' = << >>
    /\ i' = 1
    /\ features' = << >>
    /\ stats' = InitStats
    /\ UNCHANGED <<dbExists, tableExists, rows, clock, prev, besideRun>>

\* The runner's sessions and the processor's, one at a time, in the pinned
\* setting; no editor at work.
NextRunner ==
    \/ SiteStartScan
    \/ Cancel
    \/ SiteDiscoverFile
    \/ DiscoverEnd
    \/ SiteExtractItem
    \/ ExtractEnd
    \/ Retire
    \/ WriteNothing
    \/ WriteOk
    \/ WriteFail
    \/ EndSession
    \/ RunnerStart
    \/ RunnerImport
    \/ RunnerInit
    \/ RunnerException
    \/ MinerParams
    \/ MinerDiscoverFile
    \/ MinerDiscoverEnd
    \/ MinerExtractItem
    \/ MinerExtractEnd
    \/ MinerWriteOk
    \/ MinerWriteFail
    \/ RunnerReport
    \/ RunnerEnd

SpecRunner == InitSite /\ [][NextRunner]_vars

\* ================================================== _calculate_quality_score
\* The records the score may be asked for.  A key the extraction did not
\* set is FALSE (a flag), 0 (a count), "unset" (is_valid) or "NULL"
\* (issues); `issues` may also be the empty text of an exception.
FeatureDatas ==
    [data_type        : {"vector", "raster", "table"},
     has_crs          : BOOLEAN,
     has_extent       : BOOLEAN,
     metadata_present : BOOLEAN,
     field_count      : 0..MaxCount,
     band_count       : 0..MaxCount,
     is_valid         : {"unset", "true", "false"},
     issues           : {"NULL", "", "err"}]

\* round(score, 1): a value in hundredths of a point rounded to tenths, a
\* tie going to the even tenth.
Round1(hundredths) ==
    LET q == hundredths \div 10
        r == hundredths % 10
    IN IF r > 5 \/ (r = 5 /\ q % 2 = 1) THEN q + 1 ELSE q

\* The score, in tenths of a point.
\* Variant: is_valid is read without its default (`.get('is_valid')`).
CalculateQualityScore_NoDefault(fd) ==
    Round1(
        (IF fd.has_crs THEN 2000 ELSE 0)
      + (IF fd.has_extent THEN 2000 ELSE 0)
      + (IF fd.metadata_present THEN 2000 ELSE 0)
      + (IF fd.data_type = "vector"
         THEN (IF fd.field_count > 0 THEN 1500 ELSE 0)
         ELSE IF fd.data_type = "raster"
         THEN (IF fd.band_count > 0 THEN 1500 ELSE 0)
         ELSE 0)
      + (IF fd.is_valid = "true" THEN 1500 ELSE 0)
      + (IF fd.issues \in {"NULL", ""} THEN 1000 ELSE 0))

CalculateQualityScore(fd) ==
    Round1(
        (IF fd.has_crs THEN 2000 ELSE 0)
      + (IF fd.has_extent THEN 2000 ELSE 0)
      + (IF fd.metadata_present THEN 2000 ELSE 0)
      + (IF fd.data_type = "vector"
         THEN (IF fd.field_count > 0 THEN 1500 ELSE 0)
         ELSE IF fd.data_type = "raster"
         THEN (IF fd.band_count > 0 THEN 1500 ELSE 0)
         ELSE 0)
      + (IF fd.is_valid # "false" THEN 1500 ELSE 0)
      + (IF fd.issues \in {"NULL", ""} THEN 1000 ELSE 0))

InitScore ==
    /\ ManagerIdle
    /\ ExtentIdle
    /\ WidgetIdle
    /\ dbExists = FALSE
    /\ tableExists = FALSE
    /\ rows = << >>
    /\ clock = 0
    /\ edits = 0
    /\ pc = "idle"
    /\ params = NoParams
    /\ stopped = FALSE
    /\ existing_inventory = NoInventory
    /\ walk = 1
    /\ data_sources = << >>
    /\ i = 1
    /\ features = << >>
    /\ current_file_paths = {}
    /\ stats = InitStats
    /\ pre = << >>
    /\ baseline = NoCatalog
    /\ written = << >>
    /\ progress = 0
    /\ site = NoSite
    /\ prev = NoSession
    /\ rpc = "idle"
    /\ events = << >>
    /\ feature_data \in FeatureDatas
    /\ quality_score = << >>

\* feature_data['quality_score'] = self._calculate_quality_score(feature_data)
ScoreRecord ==
    /\ quality_score = << >>
    /\ quality_score' = << CalculateQualityScore(feature_data) >>
    /\ UNCHANGED <<dbExists, tableExists, rows, clock, edits, pc, scanVars,
                   pre, baseline, written, progress, site, prev, rpc, events,
                   feature_data, apart>>

SpecScore == InitScore /\ [][ScoreRecord]_vars

\* ========================================================== DatabaseManager
\* No scan session, no runner session and no score: the variables of the
\* scanner as the initial state has them.
ScannerIdle ==
    /\ clock = 0
    /\ edits = 0
    /\ pc = "idle"
    /\ params = NoParams
    /\ stopped = FALSE
    /\ existing_inventory = NoInventory
    /\ walk = 1
    /\ data_sources = << >>
    /\ i = 1
    /\ features = << >>
    /\ current_file_paths = {}
    /\ stats = InitStats
    /\ pre = << >>
    /\ baseline = NoCatalog
    /\ written = << >>
    /\ progress = 0
    /\ site = NoSite
    /\ prev = NoSession
    /\ rpc = "idle"
    /\ events = << >>
    /\ feature_data = NoFeatureData
    /\ quality_score = << >>

\* The variables of the scanner, which no manager call touches.
scanner == <<clock, pc, scanVars, pre, baseline, written, progress,
             site, prev, rpc, events, feature_data, quality_score>>

\* A manager call returns: what it was, its arguments, whether it
\* succeeded, its value, and whether it follows a successful call of the
\* same kind.
Return(op, args, ok, value) ==
    [op |-> op, args |-> args, ok |-> ok, value |-> value,
     again |-> ret.op = op /\ ret.ok]

\* connect(db_path): the file picked in the open dialog is opened; any
\* exception leaves the manager disconnected.
Connect ==
    /\ dbExists
    /\ ~is_connected
    /\ \E opened \in BOOLEAN :
          /\ is_connected' = opened
          /\ ret' = Return("connect", << >>, opened, "NULL")
    /\ before' = Database
    /\ UNCHANGED <<dbExists, tableExists, rows, columns, mm_tables,
                   metadata_cache, plugin_info, upgrade_history, edits,
                   scanner, extentVars, widgetVars>>

\* disconnect()
Disconnect ==
    /\ is_connected
    /\ is_connected' = FALSE
    /\ ret' = Return("disconnect", << >>, TRUE, "NULL")
    /\ before' = Database
    /\ UNCHANGED <<dbExists, tableExists, rows, columns, mm_tables,
                   metadata_cache, plugin_info, upgrade_history, edits,
                   scanner, extentVars, widgetVars>>

\* ------------------------------------------------ validate_inventory_database
\* required_fields
RequiredFields ==
    {"metadata_status", "metadata_last_updated", "metadata_target",
     "metadata_cached", "retired_datetime"}

\* Columns a table named geospatial_inventory may have.
InventoryColumns == RequiredFields \cup {"file_path", "layer_name"}

\* (is_valid, message), the message by its kind.  `raised` is a query that
\* raises (the file is not a database).
\* Variant: the column check is left out.
ValidateInventoryDatabase_TableOnly(connected, tbl, cols, raised) ==
    IF ~connected THEN <<FALSE, "not connected">>
    ELSE IF raised THEN <<FALSE, "validation error">>
    ELSE IF ~tbl THEN <<FALSE, "table missing">>
    ELSE <<TRUE, "validated">>

ValidateInventoryDatabase(connected, tbl, cols, raised) ==
    IF ~connected THEN <<FALSE, "not connected">>
    ELSE IF raised THEN <<FALSE, "validation error">>
    ELSE IF ~tbl THEN <<FALSE, "table missing">>
    ELSE IF RequiredFields \ cols # {} THEN <<FALSE, "outdated">>
    ELSE <<TRUE, "validated">>

\* The call: two SELECTs, nothing written.
ValidateCall ==
    /\ \E raised \in BOOLEAN :
          LET v == ValidateInventoryDatabase(is_connected, tableExists,
                                             columns, raised)
          IN ret' = Return("validate", << >>, v[1], v[2])
    /\ before' = Database
    /\ UNCHANGED <<dbExists, tableExists, rows, is_connected, columns,
                   mm_tables, metadata_cache, plugin_info, upgrade_history,
                   edits, scanner, extentVars, widgetVars>>

\* The files the open dialog may be pointed at: any file, holding a table
\* named geospatial_inventory or not, with any of the columns.
InitValidate ==
    /\ ScannerIdle
    /\ ExtentIdle
    /\ WidgetIdle
    /\ dbExists = TRUE
    /\ tableExists \in BOOLEAN
    /\ columns \in SUBSET InventoryColumns
    /\ tableExists \/ columns = {}
    /\ rows = << >>
    /\ is_connected = FALSE
    /\ mm_tables = FALSE
    /\ metadata_cache = NoCache
    /\ plugin_info = "NULL"
    /\ upgrade_history = << >>
    /\ ret = NoReturn
    /\ before = NoDatabase

NextValidate ==
    \/ Connect
    \/ Disconnect
    \/ ValidateCall

SpecValidate == InitValidate /\ [][NextValidate]_vars

\* ------------------------------------------- the catalogs the manager is handed
LayersOf(p) == {id[2] : id \in {q \in Identities : q[1] = p}}

\* The rows a catalog may hold, active or retired, with the given
\* identities and values of metadata_status.
InventoryRecords(ids, statuses) ==
    {[file_path             |-> id[1],
      layer_name            |-> id[2],
      data_type             |-> "vector",
      scan_timestamp        |-> 0,
      issues                |-> "NULL",
      metadata_status       |-> st,
      metadata_cached       |-> st = "complete",
      metadata_last_updated |-> 0,
      metadata_target       |-> "NULL",
      retired_datetime      |-> rt] :
        id \in ids, st \in statuses, rt \in {0, 1}}

Catalogs(records) == UNION {[1..m -> records] : m \in 0..MaxRows}

\* A row of metadata_cache apart from its layer_path.
CacheRow(layer, json, created, edited, in_sync) ==
    [layer_name |-> layer, metadata_json |-> json, created_date |-> created,
     last_edited_date |-> edited, in_sync |-> in_sync]

\* The metadata_cache tables: at most one row per layer_path.
Caches ==
    UNION {{c \in [d -> {CacheRow(l, "{}", 0, 0, FALSE) :
                            l \in UNION {LayersOf(p) : p \in Paths}}] :
               \A p \in d : c[p].layer_name \in LayersOf(p)} :
           d \in SUBSET Paths}

InitInventory ==
    /\ ScannerIdle
    /\ ExtentIdle
    /\ WidgetIdle
    /\ dbExists = TRUE
    /\ tableExists = TRUE
    /\ columns = InventoryColumns
    /\ rows \in Catalogs(InventoryRecords(Identities, {"none", "complete"}))
    /\ is_connected \in BOOLEAN
    /\ mm_tables \in BOOLEAN
    /\ metadata_cache \in Caches
    /\ mm_tables \/ metadata_cache = NoCache
    /\ plugin_info = "NULL"
    /\ upgrade_history = << >>
    /\ ret = NoReturn
    /\ before = NoDatabase

\* update_inventory_metadata_status(layer_path, layer_name, status, target,
\* cached): False when not connected and when the UPDATE raises (rolled
\* back); otherwise whether a row matched.
UpdateStatusCall ==
    /\ \E id \in Identities, status \in EditStatuses, target \in EditTargets,
          cached \in EditCached, raised \in BOOLEAN :
          LET args == [layer_path |-> id[1], layer_name |-> id[2],
                       status |-> status, target |-> target,
                       cached |-> cached]
              hit == \E n \in 1..Len(rows) : Key(rows[n]) = id
          IN IF ~is_connected \/ raised
             THEN /\ ret' = Return("update", args, FALSE, "NULL")
                  /\ UNCHANGED <<rows, edits>>
             ELSE IF ~hit
             THEN /\ ret' = Return("update", args, FALSE, "NULL")
                  /\ UNCHANGED <<rows, edits>>
             ELSE /\ edits < MaxEdits
                  /\ rows' = UpdateStatusRows(rows, id[1], id[2], status,
                                              target, cached, edits + 1)
                  /\ edits' = edits + 1
                  /\ ret' = Return("update", args, TRUE, "NULL")
    /\ before' = Database
    /\ UNCHANGED <<dbExists, tableExists, is_connected, columns, mm_tables,
                   metadata_cache, plugin_info, upgrade_history, scanner,
                   extentVars, widgetVars>>

\* ------------------------------------------------- get_inventory_statistics
ActiveWith(rs, st) ==
    Cardinality({n \in 1..Len(rs) :
                    IsActive(rs[n]) /\ rs[n].metadata_status = st})

\* SELECT COUNT(*) ... WHERE retired_datetime IS NULL, then the counts per
\* group of GROUP BY metadata_status, each stored under
\* COALESCE(metadata_status, 'none'): the NULL group and the 'none' group
\* are both stored under 'none', the later one replacing the earlier.  SQL
\* leaves the order of the groups open (`null_last`).
GetInventoryStatistics(rs, null_last) ==
    [total    |-> Cardinality({n \in 1..Len(rs) : IsActive(rs[n])}),
     complete |-> ActiveWith(rs, "complete"),
     partial  |-> ActiveWith(rs, "partial"),
     none     |-> IF ActiveWith(rs, "NULL") = 0 THEN ActiveWith(rs, "none")
                  ELSE IF ActiveWith(rs, "none") = 0
                  THEN ActiveWith(rs, "NULL")
                  ELSE IF null_last THEN ActiveWith(rs, "NULL")
                  ELSE ActiveWith(rs, "none")]

\* The call: None when not connected or when a query raises.
StatisticsCall ==
    /\ \E raised \in BOOLEAN, null_last \in BOOLEAN :
          IF ~is_connected \/ raised
          THEN ret' = Return("statistics", << >>, FALSE, "NULL")
          ELSE ret' = Return("statistics", << >>, TRUE,
                             GetInventoryStatistics(rows, null_last))
    /\ before' = Database
    /\ UNCHANGED <<dbExists, tableExists, rows, is_connected, columns,
                   mm_tables, metadata_cache, plugin_info, upgrade_history,
                   edits, scanner, extentVars, widgetVars>>

\* ---------------------------------------------- fix_incorrect_metadata_status
\* WHERE metadata_status = 'complete' AND NOT EXISTS (SELECT 1 FROM
\* metadata_cache WHERE layer_path = file_path AND layer_name = layer_name)
\* Variant: the cache row is looked up by layer_path alone.
Incorrect_ByLayerPath(r, cache) ==
    /\ r.metadata_status = "complete"
    /\ r.file_path \notin DOMAIN cache

Incorrect(r, cache) ==
    /\ r.metadata_status = "complete"
    /\ ~(/\ r.file_path \in DOMAIN cache
         /\ cache[r.file_path].layer_name = r.layer_name)

\* UPDATE ... SET metadata_status = 'none', metadata_cached = 0,
\* metadata_last_updated = datetime('now') WHERE (as above)
FixIncorrectMetadataStatus(rs, cache, now) ==
    [n \in 1..Len(rs) |->
        IF Incorrect(rs[n], cache)
        THEN [rs[n] EXCEPT !.metadata_status       = "none",
                           !.metadata_cached       = FALSE,
                           !.metadata_last_updated = now]
        ELSE rs[n]]

\* The call: (False, ...) when not connected or when a statement raises
\* (no metadata_cache table); (True, ...) with the number of rows fixed,
\* 0 when the count found none.
FixCall ==
    /\ \E raised \in BOOLEAN :
          LET incorrect_count ==
                  Cardinality({n \in 1..Len(rows) :
                                  Incorrect(rows[n], metadata_cache)})
          IN IF ~is_connected \/ raised \/ ~mm_tables
             THEN /\ ret' = Return("fix", << >>, FALSE, 0)
                  /\ UNCHANGED <<rows, edits>>
             ELSE IF incorrect_count = 0
             THEN /\ ret' = Return("fix", << >>, TRUE, 0)
                  /\ UNCHANGED <<rows, edits>>
             ELSE /\ edits < MaxEdits
                  /\ rows' = FixIncorrectMetadataStatus(rows, metadata_cache,
                                                        edits + 1)
                  /\ edits' = edits + 1
                  /\ ret' = Return("fix", << >>, TRUE, incorrect_count)
    /\ before' = Database
    /\ UNCHANGED <<dbExists, tableExists, is_connected, columns, mm_tables,
                   metadata_cache, plugin_info, upgrade_history, scanner,
                   extentVars, widgetVars>>

NextInventory ==
    \/ UpdateStatusCall
    \/ FixCall

SpecInventory == InitInventory /\ [][NextInventory]_vars

\* The catalogs the statistics are asked of: any mix of the values of
\* metadata_status, NULL included, on active and retired rows.
InitStatistics ==
    /\ ScannerIdle
    /\ ExtentIdle
    /\ WidgetIdle
    /\ dbExists = TRUE
    /\ tableExists = TRUE
    /\ columns = InventoryColumns
    /\ rows \in Catalogs(InventoryRecords({<<"a", "a">>},
                           {"none", "partial", "complete", "NULL"}))
    /\ is_connected \in BOOLEAN
    /\ mm_tables = FALSE
    /\ metadata_cache = NoCache
    /\ plugin_info = "NULL"
    /\ upgrade_history = << >>
    /\ ret = NoReturn
    /\ before = NoDatabase

SpecStatistics == InitStatistics /\ [][StatisticsCall]_vars

\* =========================================================== extent to WGS84
\* SQL NULL / None for an extent or a geometry.
NoRect == << >>

\* The extents layer.GetExtent() may return, as (xmin, xmax, ymin, ymax).
Extents ==
    {e \in (0..MaxCoord) \X (0..MaxCoord) \X (0..MaxCoord) \X (0..MaxCoord) :
        e[1] < e[2] /\ e[3] < e[4]}

\* The layers an extraction may be handed: by which code, vector or raster,
\* with a spatial reference or without, with the extent the library
\* reports, and whether the reprojection into EPSG:4326 goes through.
ExtentCases ==
    [kind       : {"processor", "miner"},
     type       : {"vector", "raster"},
     has_srs    : BOOLEAN,
     extent     : Extents,
     transforms : BOOLEAN]

\* transform.TransformPoint(x, y): the point in EPSG:4326.
TransformPoint(x, y) == <<x + 10, y + 20>>

\* The record before the extent is looked at.
BlankExtentRecord ==
    [has_crs |-> FALSE, has_extent |-> FALSE, native_extent |-> NoRect,
     wgs84_extent |-> NoRect, issues |-> "NULL", geometry |-> NoRect]

\* _transform_extent_to_wgs84: sets wgs84_extent from the two transformed
\* corners; any exception is swallowed by `except: pass`.
TransformExtentToWgs84(fd, extent, transforms) ==
    IF transforms
    THEN LET p1 == TransformPoint(extent[1], extent[3])
             p2 == TransformPoint(extent[2], extent[4])
         IN [fd EXCEPT !.wgs84_extent = <<p1[1], p1[2], p2[1], p2[2]>>]
    ELSE fd

\* _create_extent_geometry: the polygon of wgs84_extent, None without it.
CreateExtentGeometry(fd) ==
    IF fd.wgs84_extent = NoRect THEN NoRect ELSE fd.wgs84_extent

\* InventoryProcessor._extract_vector_metadata / _extract_raster_metadata,
\* the part on CRS and extent, then _create_extent_geometry.  native_extent
\* is written as xmin,ymin,xmax,ymax.
ProcessorExtent(c) ==
    LET e  == c.extent
        fd == [BlankExtentRecord EXCEPT
                  !.has_crs = c.has_srs,
                  !.has_extent = TRUE,
                  !.native_extent = <<e[1], e[3], e[2], e[4]>>]
        tr == IF c.has_srs
              THEN TransformExtentToWgs84(fd, e, c.transforms)
              ELSE fd
    IN [tr EXCEPT !.geometry = CreateExtentGeometry(tr)]

\* InventoryMinerAlgorithm._extract_vector_metadata /
\* _extract_raster_metadata, the part on CRS and extent.  A raster without
\* projection gets no extent at all; on an exception of transformBoundingBox
\* the geometry is the native rectangle.
MinerExtent(c) ==
    LET e      == c.extent
        native == <<e[1], e[3], e[2], e[4]>>
        fd     == [BlankExtentRecord EXCEPT !.has_crs = c.has_srs]
    IN IF c.type = "raster" /\ ~c.has_srs
       THEN fd
       ELSE IF ~c.has_srs
       THEN [fd EXCEPT !.has_extent = TRUE, !.native_extent = native]
       ELSE IF c.transforms
       THEN LET p1 == TransformPoint(e[1], e[3])
                p2 == TransformPoint(e[2], e[4])
                w  == <<p1[1], p1[2], p2[1], p2[2]>>
            IN [fd EXCEPT !.has_extent = TRUE, !.native_extent = native,
                          !.wgs84_extent = w, !.geometry = w]
       ELSE [fd EXCEPT !.has_extent = TRUE, !.native_extent = native,
                       !.geometry = native]

\* What the extraction leaves alone.
besideExtent == <<dbExists, tableExists, rows, edits, scanner, managerVars,
                  widgetVars>>

\* The processor extracts the record of the layer; the record is appended
\* to the features whatever became of its extent.
ExtractProcessor ==
    /\ extent_case \in ExtentCases
    /\ extent_case.kind = "processor"
    /\ ~footprint.made
    /\ footprint' = [made |-> TRUE, record |-> ProcessorExtent(extent_case),
                     warned |-> FALSE]
    /\ UNCHANGED <<extent_case, besideExtent>>

\* The miner extracts the record of the layer; a failed reprojection is
\* reported by feedback.pushWarning.
ExtractMiner ==
    /\ extent_case \in ExtentCases
    /\ extent_case.kind = "miner"
    /\ ~footprint.made
    /\ footprint' = [made |-> TRUE, record |-> MinerExtent(extent_case),
                     warned |-> extent_case.has_srs
                                   /\ ~extent_case.transforms]
    /\ UNCHANGED <<extent_case, besideExtent>>

InitExtent ==
    /\ ScannerIdle
    /\ ManagerIdle
    /\ WidgetIdle
    /\ dbExists = FALSE
    /\ tableExists = FALSE
    /\ rows = << >>
    /\ extent_case \in ExtentCases
    /\ footprint = NoFootprint

NextExtent ==
    \/ ExtractProcessor
    \/ ExtractMiner

SpecExtent == InitExtent /\ [][NextExtent]_vars

\* ================================================== the loop body, step by step
\* The extraction loop with the item in flight told apart: the head of an
\* iteration polls `if self.is_canceled(): break` and sets the progress,
\* then the body extracts the item while stop() may be called.
\* Variant: the loop head does not poll the cancellation.
PollItem_NoPoll ==
    /\ pc = "extract"
    /\ i <= Len(data_sources)
    /\ progress' = ItemProgress(i - 1, Len(data_sources))
    /\ pc' = "item"
    /\ UNCHANGED <<dbExists, tableExists, rows, clock, edits, scanVars,
                   pre, baseline, written, prev, elsewhere>>

PollItem ==
    /\ pc = "extract"
    /\ i <= Len(data_sources)
    /\ ~stopped
    /\ progress' = ItemProgress(i - 1, Len(data_sources))
    /\ pc' = "item"
    /\ UNCHANGED <<dbExists, tableExists, rows, clock, edits, scanVars,
                   pre, baseline, written, prev, elsewhere>>

\* The try block of the loop body: nothing in it reads the cancellation.
FinishItemAs(out) ==
    /\ pc = "item"
    /\ IF out # "raises"
       THEN LET feature == ExtractMetadata(data_sources[i], params,
                                           existing_inventory, clock,
                                           out = "ok")
            IN /\ features' = Append(features, feature)
               /\ current_file_paths' =
                     current_file_paths \cup {feature.file_path}
               /\ stats' =
                     [stats EXCEPT
                        !.total = @ + 1,
                        !.vectors = IF feature.data_type = "vector"
                                    THEN @ + 1 ELSE @,
                        !.rasters = IF feature.data_type = "raster"
                                    THEN @ + 1 ELSE @,
                        !.tables = IF feature.data_type = "table"
                                   THEN @ + 1 ELSE @]
       ELSE /\ stats' = OnItemException(stats)
            /\ UNCHANGED <<features, current_file_paths>>
    /\ i' = i + 1
    /\ pc' = "extract"
    /\ UNCHANGED <<dbExists, tableExists, rows, clock, edits, params,
                   stopped, existing_inventory, walk, data_sources, pre,
                   baseline, written, progress, prev, elsewhere>>

SiteFinishItem == FinishItemAs(site.dir[data_sources[i].path].extract)

\* stop() while an item is in flight.
CancelInFlight ==
    /\ pc = "item"
    /\ ~stopped
    /\ stopped' = TRUE
    /\ UNCHANGED <<dbExists, tableExists, rows, clock, edits, pc, params,
                   existing_inventory, walk, data_sources, i, features,
                   current_file_paths, stats, pre, baseline, written,
                   progress, prev, elsewhere>>

\* The processor's scans in the pinned setting, with stop() at any moment.
NextCancel ==
    \/ SiteStartScan
    \/ Cancel
    \/ CancelInFlight
    \/ SiteDiscoverFile
    \/ DiscoverEnd
    \/ PollItem
    \/ SiteFinishItem
    \/ ExtractEnd
    \/ Retire
    \/ WriteNothing
    \/ WriteOk
    \/ WriteFail
    \/ SiteEndSession

SpecCancel == InitSite /\ [][NextCancel]_vars

\* =========================================================== InventoryWidget
\* No terminal signal has been emitted.
NoEvent == [signal |-> "none", arg |-> "none"]

\* A worker thread as run_inventory starts it: run() is about to import the
\* algorithm, stop() has not reached a feedback, and the thread's event
\* loop runs until someone calls quit().
NewThread ==
    [at |-> "import", stopped |-> FALSE, terminal |-> NoEvent,
     running |-> TRUE]

\* What the dialog leaves alone.
besideWidget == <<dbExists, tableExists, rows, edits, scanner, managerVars,
                  extentVars>>

\* run_btn.clicked -> run_inventory: with an input missing it returns after
\* a message box; otherwise both buttons are switched and a new QThread
\* with a new InventoryRunner is started.
\* Variant: the run button is not disabled.
RunInventory_ButtonStaysEnabled ==
    /\ run_btn
    /\ Len(threads) < MaxScans
    /\ \E valid \in BOOLEAN :
          IF valid
          THEN /\ run_btn' = run_btn
               /\ stop_btn' = TRUE
               /\ threads' = Append(threads, NewThread)
          ELSE UNCHANGED widgetVars
    /\ UNCHANGED besideWidget

RunInventory ==
    /\ run_btn
    /\ Len(threads) < MaxScans
    /\ \E valid \in BOOLEAN :
          IF valid
          THEN /\ run_btn' = FALSE
               /\ stop_btn' = TRUE
               /\ threads' = Append(threads, NewThread)
          ELSE UNCHANGED widgetVars
    /\ UNCHANGED besideWidget

\* stop_btn.clicked -> stop_inventory -> self.inventory_runner.stop(): the
\* latest runner's feedback, once it exists, is cancelled.
StopInventory ==
    /\ stop_btn
    /\ threads # << >>
    /\ threads[Len(threads)].at # "import"
    /\ ~threads[Len(threads)].stopped
    /\ threads' = [threads EXCEPT ![Len(threads)].stopped = TRUE]
    /\ UNCHANGED <<run_btn, stop_btn, besideWidget>>

\* run(), the import: an ImportError is reported by `error` and run()
\* returns; otherwise the feedback is created and processAlgorithm runs.
WorkerImport ==
    /\ \E n \in 1..Len(threads) :
          /\ threads[n].at = "import"
          /\ \E ok \in BOOLEAN :
                threads' =
                    IF ok
                    THEN [threads EXCEPT ![n].at = "algorithm"]
                    ELSE [threads EXCEPT ![n].at = "emitted",
                                         ![n].terminal = Error("import")]
    /\ UNCHANGED <<run_btn, stop_btn, besideWidget>>

\* run(), the rest: the except branch, or what run() emits last once
\* processAlgorithm has returned.  The signal is queued for the dialog's
\* thread.
WorkerReturn ==
    /\ \E n \in 1..Len(threads) :
          /\ threads[n].at = "algorithm"
          /\ \E raised \in BOOLEAN :
                LET report == ReportEvents(threads[n].stopped, Results)
                    last == IF raised THEN Error("exception")
                            ELSE report[Len(report)]
                IN threads' = [threads EXCEPT ![n].at = "emitted",
                                              ![n].terminal = last]
    /\ UNCHANGED <<run_btn, stop_btn, besideWidget>>

\* The slots connected to the terminal signal run in the dialog's thread:
\* on_inventory_finished and runner_thread.quit for `finished`,
\* on_inventory_error alone for `error`.
DeliverTerminal ==
    /\ \E n \in 1..Len(threads) :
          /\ threads[n].at = "emitted"
          /\ threads' =
                [threads EXCEPT
                    ![n].at = "delivered",
                    ![n].running =
                        IF threads[n].terminal.signal = Finished.signal
                        THEN FALSE ELSE @]
    /\ run_btn' = TRUE
    /\ stop_btn' = FALSE
    /\ UNCHANGED besideWidget

NextWidget ==
    \/ RunInventory
    \/ StopInventory
    \/ WorkerImport
    \/ WorkerReturn
    \/ DeliverTerminal

SpecWidget == Init /\ [][NextWidget]_vars

\* ============================================================ metadata_cache
\* The metadata dictionaries the wizard may hand over: the empty one, or a
\* title with keywords held in a list, a tuple or a set.
EmptyDict == [title |-> "NULL", keywords |-> "NULL"]

Metadatas ==
    {EmptyDict} \cup [title : {"t1", "t2"}, keywords : {"list", "tuple", "set"}]

\* json.dumps raises TypeError on a set.
Serializable(m) == m.keywords # "set"

\* json.dumps(metadata, indent=2): lists and tuples both become arrays.
Dumps(m) ==
    IF m = EmptyDict THEN "{}"
    ELSE "{title: " \o m.title \o ", keywords: []}"

\* json.loads(text): an array becomes a list.
Loads(text) ==
    CHOOSE m \in Metadatas :
        /\ m.keywords \in {"NULL", "list"}
        /\ Dumps(m) = text

\* INSERT OR REPLACE INTO metadata_cache ...: the row with the same
\* layer_path (UNIQUE) is deleted and the new row inserted; created_date is
\* that of the row with the same layer_path and layer_name, if there was
\* one, else datetime('now').
SaveMetadataToCache(cache, path, name, text, in_sync, now) ==
    [p \in DOMAIN cache \cup {path} |->
        IF p = path
        THEN CacheRow(name, text,
                      IF path \in DOMAIN cache /\ cache[path].layer_name = name
                      THEN cache[path].created_date ELSE now,
                      now, in_sync)
        ELSE cache[p]]

\* SELECT metadata_json ... WHERE layer_path = ? AND layer_name = ?, or by
\* layer_path alone when no layer_name is given; None when no row is found.
LoadMetadataFromCache(cache, path, name) ==
    IF /\ path \in DOMAIN cache
       /\ name = "" \/ cache[path].layer_name = name
    THEN <<TRUE, Loads(cache[path].metadata_json)>>
    ELSE <<FALSE, EmptyDict>>

\* save_metadata_to_cache(layer_path, layer_name, metadata, in_sync): False
\* when not connected and when a statement raises (rolled back).
SaveCall ==
    /\ \E id \in Identities, m \in Metadatas, in_sync \in BOOLEAN,
          raised \in BOOLEAN :
          LET args == [layer_path |-> id[1], layer_name |-> id[2],
                       metadata |-> m, in_sync |-> in_sync]
          IN IF ~is_connected \/ raised \/ ~mm_tables \/ ~Serializable(m)
             THEN /\ ret' = Return("save", args, FALSE, "NULL")
                  /\ UNCHANGED <<metadata_cache, edits>>
             ELSE /\ edits < MaxEdits
                  /\ metadata_cache' =
                        SaveMetadataToCache(metadata_cache, id[1], id[2],
                                            Dumps(m), in_sync, edits + 1)
                  /\ edits' = edits + 1
                  /\ ret' = Return("save", args, TRUE, "NULL")
    /\ before' = Database
    /\ UNCHANGED <<dbExists, tableExists, rows, is_connected, columns,
                   mm_tables, plugin_info, upgrade_history, scanner,
                   extentVars, widgetVars>>

\* load_metadata_from_cache(layer_path, layer_name=None): None when not
\* connected, when no row is found and when a statement raises.
LoadCall ==
    /\ \E id \in Identities, named \in BOOLEAN, raised \in BOOLEAN :
          LET args == [layer_path |-> id[1],
                       layer_name |-> IF named THEN id[2] ELSE ""]
              found == LoadMetadataFromCache(metadata_cache, args.layer_path,
                                             args.layer_name)
          IN IF ~is_connected \/ raised \/ ~mm_tables
             THEN ret' = Return("load", args, FALSE, EmptyDict)
             ELSE ret' = Return("load", args, found[1], found[2])
    /\ before' = Database
    /\ UNCHANGED <<dbExists, tableExists, rows, is_connected, columns,
                   mm_tables, metadata_cache, plugin_info, upgrade_history,
                   edits, scanner, extentVars, widgetVars>>

InitCache ==
    /\ ScannerIdle
    /\ ExtentIdle
    /\ WidgetIdle
    /\ dbExists = TRUE
    /\ tableExists = TRUE
    /\ columns = InventoryColumns
    /\ rows = << >>
    /\ is_connected \in BOOLEAN
    /\ mm_tables \in BOOLEAN
    /\ metadata_cache \in Caches
    /\ mm_tables \/ metadata_cache = NoCache
    /\ plugin_info = "NULL"
    /\ upgrade_history = << >>
    /\ ret = NoReturn
    /\ before = NoDatabase

NextCache ==
    \/ SaveCall
    \/ LoadCall

SpecCache == InitCache /\ [][NextCache]_vars

\* ========================================================== MigrationManager
\* DatabaseSchema.METADATA_SCHEMA_VERSION
METADATA_SCHEMA_VERSION == "0.1.0"

\* The values of metadata_schema_version a database may hold: none, the
\* current one, an earlier one.
Versions == {"NULL", METADATA_SCHEMA_VERSION, "0.0.9"}

\* A row of upgrade_history apart from id and upgrade_date.
UpgradeRow(from, to, success, notes) ==
    [from_version |-> from, to_version |-> to, tool |-> "metadata_manager",
     success |-> success, notes |-> notes]

\* The rows earlier upgrades may have left.
EarlierUpgrades ==
    {UpgradeRow("0.0.8", "0.0.9", s, "Version update only") : s \in BOOLEAN}

\* needs_upgrade(current_version)
NeedsUpgrade(current_version) ==
    IF current_version = "NULL" THEN TRUE
    ELSE current_version # METADATA_SCHEMA_VERSION

\* get_migration_path: _register_migrations registers nothing.
GetMigrationPath(current_version, target_version) == << >>

\* get_schema_version(): None when not connected.
GetSchemaVersion == IF is_connected THEN plugin_info ELSE "NULL"

\* perform_upgrade(db_manager, current_version) with the version the
\* manager reports.  Without a version the tables are initialised
\* (CREATE TABLE IF NOT EXISTS ..., INSERT OR REPLACE of the version); at
\* the target version nothing is done; otherwise, no migration being
\* registered, update_schema_version stores the target and, if that worked,
\* log_upgrade inserts a row - its result is not looked at.
PerformUpgradeCall ==
    /\ \E update_raised \in BOOLEAN, log_raised \in BOOLEAN :
          LET current_version == GetSchemaVersion
              target_version == METADATA_SCHEMA_VERSION
          IN IF current_version = "NULL"
             THEN IF ~is_connected
                  THEN /\ ret' = Return("upgrade", current_version, FALSE,
                                        "Not connected to database")
                       /\ UNCHANGED <<mm_tables, plugin_info, upgrade_history>>
                  ELSE IF update_raised
                  THEN /\ ret' = Return("upgrade", current_version, FALSE,
                                        "Failed to initialize tables")
                       /\ mm_tables' \in {mm_tables, TRUE}
                       /\ UNCHANGED <<plugin_info, upgrade_history>>
                  ELSE /\ ret' = Return("upgrade", current_version, TRUE,
                                        "Tables initialized successfully")
                       /\ mm_tables' = TRUE
                       /\ plugin_info' = target_version
                       /\ UNCHANGED upgrade_history
             ELSE IF current_version = target_version
             THEN /\ ret' = Return("upgrade", current_version, TRUE,
                                   "Database is already at latest version")
                  /\ UNCHANGED <<mm_tables, plugin_info, upgrade_history>>
             ELSE IF GetMigrationPath(current_version, target_version) = << >>
             THEN IF update_raised
                  THEN /\ ret' = Return("upgrade", current_version, FALSE,
                                        "Failed to update version")
                       /\ UNCHANGED <<mm_tables, plugin_info, upgrade_history>>
                  ELSE /\ ret' = Return("upgrade", current_version, TRUE,
                                        "Updated to version")
                       /\ plugin_info' = target_version
                       /\ upgrade_history' =
                             IF log_raised THEN upgrade_history
                             ELSE Append(upgrade_history,
                                         UpgradeRow(current_version,
                                                    target_version, TRUE,
                                                    "Version update only"))
                       /\ UNCHANGED mm_tables
             ELSE FALSE
    /\ before' = Database
    /\ UNCHANGED <<dbExists, tableExists, rows, is_connected, columns,
                   metadata_cache, edits, scanner, extentVars, widgetVars>>

\* The databases an upgrade may find: the version is stored by the
\* initialisation, which creates upgrade_history with the other tables.
InitUpgrade ==
    /\ ScannerIdle
    /\ ExtentIdle
    /\ WidgetIdle
    /\ dbExists = TRUE
    /\ tableExists = TRUE
    /\ columns = InventoryColumns
    /\ rows = << >>
    /\ is_connected \in BOOLEAN
    /\ mm_tables \in BOOLEAN
    /\ metadata_cache = NoCache
    /\ plugin_info \in Versions
    /\ upgrade_history \in Catalogs(EarlierUpgrades)
    /\ mm_tables \/ (plugin_info = "NULL" /\ upgrade_history = << >>)
    /\ ret = NoReturn
    /\ before = NoDatabase

NextUpgrade ==
    \/ Connect
    \/ Disconnect
    \/ PerformUpgradeCall

SpecUpgrade == InitUpgrade /\ [][NextUpgrade]_vars

\* =================================================================== claims
FeatureKeys(fs) == {Key(f) : f \in Range(fs)}

\* The active row of the pre-scan table with identity k.
PriorActive(k) == CHOOSE r \in Range(pre) : Key(r) = k /\ IsActive(r)

\* The update-mode (resp. fresh) session has returned after writing the table.
UpdateCommitted == pc = "returned" /\ params.update_mode /\ written # << >>
FreshCommitted == pc = "returned" /\ ~params.update_mode /\ written # << >>

IsFresh(r) ==
    /\ r.retired_datetime = 0
    /\ r.metadata_status = "none"
    /\ r.metadata_cached = FALSE
    /\ r.metadata_last_updated = 0
    /\ r.metadata_target = "NULL"

\* C1: when a cancellation request was observed during discovery or between
\* items of the extraction loop, the catalog after the session is the
\* pre-scan catalog (apart from the editor's own writes).
C1_CancelCommitsNothing ==
    (pc \in {"returned", "raised"} /\ CancelObserved) => Catalog = baseline

\* C2: when the write step fails, the catalog is the pre-scan catalog: no
\* retirement of the session persists and the previous table and its rows
\* are still there.
C2_WriteFailureChangesNothing ==
    pc = "raised" => Catalog = baseline

\* C3: after an update-mode scan that ran to its end, every identity that
\* was active before the scan and is not among the extracted records has a
\* row with retired_datetime set.
C3_AbsentIdentitiesRetired ==
    (pc = "returned" /\ params.update_mode /\ ~stopped) =>
        \A k \in ActiveKeys(pre) \ FeatureKeys(features) :
            \E n \in 1..Len(rows) : Key(rows[n]) = k /\ ~IsActive(rows[n])

\* C4: a retired row is never deleted: in every step, each retired row is
\* still in the table afterwards, retired, with its file-derived fields.
C4_RetiredNeverDeleted ==
    [][\A n \in 1..Len(rows) :
          ~IsActive(rows[n]) =>
              \E m \in 1..Len(rows') :
                  /\ Key(rows'[m]) = Key(rows[n])
                  /\ rows'[m].retired_datetime = rows[n].retired_datetime
                  /\ rows'[m].scan_timestamp = rows[n].scan_timestamp
                  /\ rows'[m].data_type = rows[n].data_type]_vars

C6_ExactIdentityMatch ==
    UpdateCommitted =>
        \A n \in 1..Len(written) :
            IF Key(written[n]) \in ActiveKeys(pre)
            THEN /\ written[n].metadata_status =
                        PriorActive(Key(written[n])).metadata_status
                 /\ written[n].metadata_cached =
                        PriorActive(Key(written[n])).metadata_cached
            ELSE /\ written[n].metadata_status = "none"
                 /\ written[n].metadata_cached = FALSE

C6_Witness ==
    /\ UpdateCommitted
    /\ \E n \in 1..Len(written) : \E r \in Range(pre) :
          /\ Key(written[n]) \notin ActiveKeys(pre)
          /\ written[n].metadata_status = "none"
          /\ IsActive(r)
          /\ r.file_path = written[n].file_path
          /\ r.layer_name # written[n].layer_name
          /\ r.metadata_status = "complete"

\* C7: identity uniqueness: no two active rows of the table share
\* (file_path, layer_name).
C7_IdentityUnique ==
    \A n, m \in 1..Len(rows) :
        (n # m /\ IsActive(rows[n]) /\ IsActive(rows[m])) =>
            Key(rows[n]) # Key(rows[m])

C7_Witness ==
    /\ pc = "returned"
    /\ written # << >>
    /\ clock >= 2
    /\ \E n, m \in 1..Len(rows) :
          /\ n # m
          /\ IsActive(rows[n]) /\ IsActive(rows[m])
          /\ rows[n].file_path = rows[m].file_path
    /\ \E r \in Range(pre) : IsActive(r) /\ Key(r) \in ActiveKeys(rows)

\* C8: after an update-mode scan has written the table, every row has the
\* metadata_status the editor wrote last for its identity, whether the
\* editor wrote before the scan or while it ran.
C8_EditorStatusSurvivesRescan ==
    UpdateCommitted =>
        \A n \in 1..Len(rows) : \A b \in Range(baseline.rows) :
            (Key(b) = Key(rows[n]) /\ IsActive(b)) =>
                rows[n].metadata_status = b.metadata_status

C10_ResurrectionIsFresh ==
    UpdateCommitted =>
        \A n \in 1..Len(written) :
            (/\ Key(written[n]) \notin ActiveKeys(pre)
             /\ \E r \in Range(pre) :
                    Key(r) = Key(written[n]) /\ ~IsActive(r))
            => IsFresh(written[n])

C10_Witness ==
    /\ UpdateCommitted
    /\ \E n \in 1..Len(written) : \E r \in Range(pre) :
          /\ Key(r) = Key(written[n])
          /\ ~IsActive(r)
          /\ r.metadata_status = "complete"
          /\ r.metadata_target = "cache"
          /\ IsFresh(written[n])

\* The identities of a table with their management fields.
Managed(rs) ==
    {<<Key(r), r.metadata_status, r.metadata_cached,
       r.metadata_last_updated, r.metadata_target>> : r \in Range(rs)}

\* An update-mode scan has run to its end right after another one that ran
\* to its end with the same settings, and nothing else touched the catalog
\* in between or meanwhile.
SecondOfTwoScans ==
    /\ pc = "returned"
    /\ params.update_mode
    /\ ~CancelObserved
    /\ prev.kind = "scan"
    /\ prev.ended = "returned"
    /\ prev.whole
    /\ prev.params = params
    /\ prev.rows = pre
    /\ baseline.rows = pre

Terminal == {Finished.signal, Error("exception").signal}

TerminalAt(es) == {n \in 1..Len(es) : es[n].signal \in Terminal}

\* C12: every session of the runner ends with exactly one terminal event
\* (finished or error) on every path, and no progress, status or log event
\* follows it: while run() is at work no terminal event has been emitted,
\* and once it has returned the events hold exactly one, the last.
C12_OneTerminalEvent ==
    /\ rpc \notin {"idle", "done"} => TerminalAt(events) = {}
    /\ rpc = "done" => TerminalAt(events) = {Len(events)}
    /\ rpc = "idle" => events = << >>

\* run() has returned after a scan that reported its progress and wrote its
\* layer: the one terminal event closes a list of progress, status and log
\* events.
C12_Witness ==
    /\ rpc = "done"
    /\ ~stopped
    /\ dbExists
    /\ Len(events) >= 8
    /\ events[Len(events)].signal \in Terminal
    /\ \E n \in 1..Len(events) :
          events[n].signal = "progress_updated" /\ events[n].arg > 0

\* C13: a canceled session is reported by a terminal event distinct from the
\* one a failed session is reported by.
C13_CancelDistinctFromFailure ==
    (rpc = "done" /\ stopped /\ events # << >>
        /\ events[Len(events)] = Error("canceled"))
    => events[Len(events)].signal # Error("exception").signal

\* ------------------------------------------------------------------------ C14
InSession == pc # "idle" \/ rpc # "idle"

\* C14: within one session the progress reported to the caller never
\* decreases and every reported value lies in 0..100.
C14_ProgressMonotonic ==
    [][(InSession /\ InSession')
          => (progress' >= progress /\ progress' \in 0..100)]_vars

\* The loop over three data sources has reported a value strictly between
\* those of its first and of its last item.
C14_Witness ==
    /\ Len(data_sources) = 3
    /\ i = 3
    /\ \/ pc = "extract" /\ progress = ItemProgress(1, 3) /\ progress > 30
       \/ rpc = "extract" /\ progress = MinerProgress(1, 3) /\ progress > 0

\* ------------------------------------------------------------------------ C15
\* C15: an unopenable file is silently skipped: it yields no data source and
\* no catalog record, and changes no counter: the counters stay at zero
\* throughout the discovery, and afterwards count the extracted data
\* sources only.
C15_UnopenableSkipped ==
    pc # "idle" =>
        /\ \A d \in Range(data_sources) : Openable(site.dir[d.path].file)
        /\ \A f \in Range(features) : Openable(site.dir[f.file_path].file)
        /\ \A r \in Range(written) : Openable(site.dir[r.file_path].file)
        /\ pc = "discover" => stats = InitStats
        /\ stats.total = Len(features)
        /\ stats.total + stats.errors = i - 1
        /\ stats.vectors + stats.rasters + stats.tables = stats.total
        /\ i - 1 <= Len(data_sources)

\* A scan of a directory that holds an unopenable file beside a readable one
\* has written the readable one's records.
C15_Witness ==
    /\ pc = "returned"
    /\ ~CancelObserved
    /\ \E p \in Paths : Unopenable(site.dir[p].file)
    /\ written # << >>
    /\ stats.total = Len(written)
    /\ stats.errors = 0

\* ------------------------------------------------------------------ C16, C17
\* What extracting the n-th data source comes to.
OutcomeOf(n) == site.dir[data_sources[n].path].extract

\* The data sources the loop has been through.
Processed == 1..(i - 1)

\* The identities of the processed data sources that did not raise, in order.
ExtractedKeys ==
    LET taken == SelectSeq([n \in 1..(i - 1) |-> n],
                           LAMBDA n : OutcomeOf(n) # "raises")
    IN [m \in 1..Len(taken) |->
           <<data_sources[taken[m]].path, data_sources[taken[m]].layer_name>>]

\* C16: a per-item exception does not stop the scan: each data source whose
\* extraction raises adds exactly one to the error count and no record, the
\* other data sources have their records, the loop is left only when every
\* item has been processed (or on cancellation), and a session that began
\* extracting ends only after the write step was reached.
C16_ItemExceptionContinues ==
    /\ (pc \in {"extract", "retire", "write", "returned", "raised"}
          \/ rpc \in {"extract", "write", "report"}) =>
          /\ stats.errors =
                Cardinality({n \in Processed : OutcomeOf(n) = "raises"})
          /\ [m \in 1..Len(features) |->
                 <<features[m].file_path, features[m].layer_name>>]
                = ExtractedKeys
    /\ (pc \in {"retire", "write"} \/ rpc \in {"write", "report"}) =>
          (i > Len(data_sources) \/ stopped)
    /\ (pc \in {"returned", "raised"} /\ i > 1) =>
          /\ i > Len(data_sources) \/ stopped
          /\ progress >= 90

\* The first data source raised, a later one was extracted, and the session
\* is at the write step.
C16_Witness ==
    /\ pc = "write"
    /\ ~stopped
    /\ Len(data_sources) >= 2
    /\ OutcomeOf(1) = "raises"
    /\ stats.errors >= 1
    /\ features # << >>
    /\ progress = 90

\* C17: a failed extraction sub-step still produces the item's record, with
\* a non-empty issues note, and is counted in the session's error tally.
C17_PartialFailureCounted ==
    pc \in {"extract", "retire", "write"} =>
        /\ \A n \in Processed : OutcomeOf(n) = "partial" =>
              \E f \in Range(features) :
                  /\ f.file_path = data_sources[n].path
                  /\ f.layer_name = data_sources[n].layer_name
                  /\ f.issues \notin {"NULL", ""}
        /\ stats.errors =
              Cardinality({n \in Processed : OutcomeOf(n) # "ok"})

\* ------------------------------------------------------------------ C18, C19
NoIssues(fd) == fd.issues \in {"NULL", ""}

\* "Has field/band information": field_count > 0 or band_count > 0.
HasFieldInfo(fd) == fd.field_count > 0 \/ fd.band_count > 0

\* The field/band points as the code awards them.
FieldPointsAwarded(fd) ==
    \/ fd.data_type = "vector" /\ fd.field_count > 0
    \/ fd.data_type = "raster" /\ fd.band_count > 0

\* The weighted sum, in points.
WeightedSum(fd) ==
      (IF fd.has_crs THEN 20 ELSE 0)
    + (IF fd.has_extent THEN 20 ELSE 0)
    + (IF fd.metadata_present THEN 20 ELSE 0)
    + (IF HasFieldInfo(fd) THEN 15 ELSE 0)
    + (IF fd.is_valid # "false" THEN 15 ELSE 0)
    + (IF NoIssues(fd) THEN 10 ELSE 0)

\* C18: for every record of data_type vector, raster or table the quality
\* score equals the weighted sum 20 + 20 + 20 + 15 (field_count > 0 or
\* band_count > 0) + 15 + 10 of the factors that hold, and lies in [0, 100].
C18_ScoreIsWeightedSum ==
    quality_score # << >> =>
        /\ quality_score[1] = 10 * WeightedSum(feature_data)
        /\ quality_score[1] \in 0..1000

Complete(fd) ==
    /\ fd.has_crs
    /\ fd.has_extent
    /\ fd.metadata_present
    /\ NoIssues(fd)

SchemaViolationAtStart ==
    /\ pc # "idle"
    /\ params.update_mode
    /\ baseline.db
    /\ ~baseline.table

\* C20: a schema violation is fatal at session start: an update-mode scan of
\* an output file that lacks the catalog table discovers and extracts
\* nothing, does not end in success and leaves the file as it was.
C20_SchemaViolationFatal ==
    SchemaViolationAtStart =>
        /\ walk = 1
        /\ data_sources = << >>
        /\ features = << >>
        /\ pc # "returned"
        /\ Catalog = baseline

\* ------------------------------------------------------------------------ C21
\* C21: validate_inventory_database returns (False, reason) when the manager
\* is not connected, when the geospatial_inventory table is missing, or
\* when one of the five management columns is missing from it; it returns
\* True only when the table and all five columns exist; and it leaves the
\* database as it was.
C21_ValidateRefusesForeign ==
    ret.op = "validate" =>
        /\ ~is_connected => ~ret.ok
        /\ ~tableExists => ~ret.ok
        /\ RequiredFields \ columns # {} => ~ret.ok
        /\ ret.ok => (is_connected /\ tableExists
                        /\ RequiredFields \subseteq columns)
        /\ Database = before

\* The check accepted a catalog, and refused one that lacks one column.
C21_Witness ==
    /\ ret.op = "validate"
    /\ is_connected
    /\ tableExists
    /\ \/ ret.ok /\ RequiredFields \subseteq columns
       \/ ~ret.ok /\ ret.value = "outdated"
            /\ Cardinality(RequiredFields \ columns) = 1

\* ------------------------------------------------------------------------ C22
ManagementFields ==
    {"metadata_status", "metadata_last_updated", "metadata_target",
     "metadata_cached"}

\* The row differs from the old one in management fields only.
OnlyManagementChanged(old, new) ==
    /\ DOMAIN new = DOMAIN old
    /\ \A f \in DOMAIN old \ ManagementFields : new[f] = old[f]

\* The rest of the database is as it was when the call was made.
OtherTablesKept ==
    /\ tableExists = before.table
    /\ columns = before.columns
    /\ mm_tables = before.mm_tables
    /\ metadata_cache = before.metadata_cache
    /\ plugin_info = before.plugin_info
    /\ upgrade_history = before.upgrade_history

\* C22: update_inventory_metadata_status(path, layer, ...) changes only
\* metadata_status, metadata_last_updated, metadata_target and
\* metadata_cached, and only on the rows whose (file_path, layer_name) is
\* (path, layer); every other row and field is unchanged; when no row
\* matches it returns False and changes nothing.
C22_UpdateIdentityScoped ==
    ret.op = "update" =>
        /\ Len(rows) = Len(before.rows)
        /\ \A n \in 1..Len(rows) :
              IF ret.ok /\ Key(before.rows[n])
                              = <<ret.args.layer_path, ret.args.layer_name>>
              THEN /\ OnlyManagementChanged(before.rows[n], rows[n])
                   /\ rows[n].metadata_status = ret.args.status
                   /\ rows[n].metadata_target = ret.args.target
                   /\ rows[n].metadata_cached = ret.args.cached
                   /\ rows[n].metadata_last_updated
                         > before.rows[n].metadata_last_updated
              ELSE rows[n] = before.rows[n]
        /\ (\A n \in 1..Len(before.rows) :
               Key(before.rows[n])
                   # <<ret.args.layer_path, ret.args.layer_name>>)
              => (~ret.ok /\ rows = before.rows)
        /\ OtherTablesKept

\* One layer of a container file was updated while the other layer of the
\* same file kept a different status.
C22_Witness ==
    /\ ret.op = "update"
    /\ ret.ok
    /\ ret.args.layer_path = "a"
    /\ \E n, m \in 1..Len(rows) :
          /\ Key(rows[n]) = <<"a", ret.args.layer_name>>
          /\ rows[n].metadata_status = "complete"
          /\ before.rows[n].metadata_status = "none"
          /\ rows[m].file_path = "a"
          /\ rows[m].layer_name # ret.args.layer_name
          /\ rows[m].metadata_status = "none"

\* ------------------------------------------------------------------------ C23
\* C23: for any catalog contents get_inventory_statistics returns total
\* equal to complete + partial + none, total being the number of active
\* rows.
C23_StatisticsAddUp ==
    (ret.op = "statistics" /\ ret.ok) =>
        /\ ret.value.total
              = Cardinality({n \in 1..Len(rows) : IsActive(rows[n])})
        /\ ret.value.total
              = ret.value.complete + ret.value.partial + ret.value.none

\* ------------------------------------------------------------------------ C28
\* C28: fix_incorrect_metadata_status resets to metadata_status 'none' and
\* metadata_cached 0 exactly the rows whose status is 'complete' and that
\* have no metadata_cache row of the same (file_path, layer_name); it
\* changes no other row; a second run changes nothing and reports that
\* nothing needed fixing.
C28_FixExactlyIncorrect ==
    (ret.op = "fix" /\ ret.ok) =>
        /\ Len(rows) = Len(before.rows)
        /\ \A n \in 1..Len(rows) :
              IF /\ before.rows[n].metadata_status = "complete"
                 /\ \A p \in DOMAIN before.metadata_cache :
                       <<p, before.metadata_cache[p].layer_name>>
                           # Key(before.rows[n])
              THEN /\ OnlyManagementChanged(before.rows[n], rows[n])
                   /\ rows[n].metadata_status = "none"
                   /\ rows[n].metadata_cached = FALSE
                   /\ rows[n].metadata_target = before.rows[n].metadata_target
              ELSE rows[n] = before.rows[n]
        /\ ret.value = Cardinality({n \in 1..Len(rows) :
                                       rows[n] # before.rows[n]})
        /\ ret.again => (rows = before.rows /\ ret.value = 0)
        /\ OtherTablesKept

\* A first run fixed a row and left alone a complete row that has its cache
\* row; the run after it found nothing to fix.
C28_Witness ==
    /\ ret.op = "fix"
    /\ ret.ok
    /\ ret.again
    /\ ret.value = 0
    /\ \E n, m \in 1..Len(rows) :
          /\ rows[n].metadata_status = "none"
          /\ rows[n].metadata_last_updated > 0
          /\ rows[m].metadata_status = "complete"
          /\ rows[m].file_path = rows[n].file_path

\* ------------------------------------------------------------------------ C24
\* The record says that its extent was not reprojected: its issues are set,
\* or at least a warning was raised for it.
FlaggedUntransformed ==
    footprint.record.issues # "NULL" \/ footprint.warned

\* C24: when the reprojection of a record's native extent fails, the record
\* is still produced, its footprint is the rectangle of the native extent,
\* and the record is flagged as such.
C24_FallbackToNativeExtent ==
    (footprint.made /\ extent_case.has_srs /\ ~extent_case.transforms) =>
        /\ footprint.record.native_extent # NoRect
        /\ footprint.record.geometry = footprint.record.native_extent
        /\ FlaggedUntransformed

\* ------------------------------------------------------------------------ C25
\* C25: cancellation is polled at item boundaries.  An item in flight is
\* left only by completing it, cancellation requested or not, and it is
\* counted (as a record or as an error); an item starts extraction only
\* from the loop head and only when no cancellation has been requested.
C25_CancelPolledAtBoundaries ==
    [][/\ (pc = "item" /\ pc' # "item") =>
              /\ pc' = "extract"
              /\ i' = i + 1
              /\ stats'.total + stats'.errors
                    = stats.total + stats.errors + 1
              /\ Len(features') = stats'.total
       /\ (pc # "item" /\ pc' = "item") => (pc = "extract" /\ ~stopped)
       /\ (stopped /\ pc \in {"extract", "item"}) => stopped']_vars

\* A cancellation was requested while the first of two items was in flight.
C25_Witness ==
    /\ pc = "item"
    /\ stopped
    /\ i = 1
    /\ Len(data_sources) = 2

\* ------------------------------------------------------------------------ C26
\* The sessions that have not delivered their terminal event.
Undelivered == {n \in 1..Len(threads) : threads[n].at # "delivered"}

\* C26: at most one scan session is running at any time: every session but
\* the one started last has delivered its terminal event, and while a
\* session has not delivered it the run button is disabled.
C26_OneSessionAtATime ==
    /\ Cardinality(Undelivered) <= 1
    /\ Undelivered \subseteq {Len(threads)}
    /\ Undelivered # {} => ~run_btn

\* A second scan runs, started after the first one delivered its terminal
\* event.
C26_Witness ==
    /\ Len(threads) = 2
    /\ threads[1].at = "delivered"
    /\ threads[2].at = "algorithm"
    /\ ~run_btn

\* ------------------------------------------------------------------------ C30
\* C30: no worker thread of a session that has delivered its terminal event
\* is still running when the next scan is started: every thread but the
\* one started last has been asked to quit and has stopped.
C30_FinishedThreadsStopped ==
    \A n \in 1..Len(threads) :
        (n < Len(threads) /\ threads[n].at = "delivered")
            => ~threads[n].running

\* ------------------------------------------------------------------------ C27
\* C27: the cache is keyed by (layer_path, layer_name): a successful save
\* for one layer leaves the entry of every other (layer_path, layer_name)
\* present and unchanged, and a load of the saved pair then returns the
\* metadata just saved (as JSON gives it back).
C27_CacheKeyedByLayer ==
    (ret.op = "save" /\ ret.ok) =>
        /\ \A p \in DOMAIN before.metadata_cache :
              <<p, before.metadata_cache[p].layer_name>>
                    # <<ret.args.layer_path, ret.args.layer_name>>
                 => /\ p \in DOMAIN metadata_cache
                    /\ metadata_cache[p] = before.metadata_cache[p]
        /\ LoadMetadataFromCache(metadata_cache, ret.args.layer_path,
                                 ret.args.layer_name)
              = <<TRUE, Loads(Dumps(ret.args.metadata))>>

\* ------------------------------------------------------------------------ C29
\* Whenever perform_upgrade returned success the stored version is the
\* current one.
UpgradedToTarget ==
    (ret.op = "upgrade" /\ ret.ok) =>
        /\ plugin_info = METADATA_SCHEMA_VERSION
        /\ ~NeedsUpgrade(plugin_info)

\* C29: whenever perform_upgrade returns success the stored
\* metadata_schema_version is METADATA_SCHEMA_VERSION, so needs_upgrade of
\* it is false; and a successful upgrade from a different non-null version
\* has appended one row to upgrade_history and kept the rows that were
\* there.
C29_UpgradeReachesTargetAndLogs ==
    /\ UpgradedToTarget
    /\ (/\ ret.op = "upgrade"
        /\ ret.ok
        /\ before.plugin_info \notin {"NULL", METADATA_SCHEMA_VERSION})
          => /\ Len(upgrade_history) = Len(before.upgrade_history) + 1
             /\ SubSeq(upgrade_history, 1, Len(before.upgrade_history))
                   = before.upgrade_history

=============================================================================
